---- MODULE Spec2Model ----
(***************************************************************************)
(* The eth/66 sensor protocol of polygon-cli (package p2p): one worker per *)
(* peer connection runs the status exchange and then the message loop of   *)
(* NewEth66Protocol.  The workers share the head block (behind an RWMutex) *)
(* and the message counters (atomic adds); the pending requests, the       *)
(* request counter and the oldest block are private to each connection.    *)
(* The transport, the peer and the database are the environment: what the  *)
(* peer sends, whether a send or a read fails, and what the database       *)
(* answers are inputs.                                                     *)
(***************************************************************************)
EXTENDS Integers, Sequences, FiniteSets, TLC

\* ---------------------------------------------------------------- bounds

\* Block numbers the peers talk about range over 1..MaxNumber.
MaxNumber == 3
\* Total difficulties the peers announce range over 1..MaxTD.
MaxTD == 3
\* Messages a connection reads in its loop while it is the only one.
MaxMsgs == 3
\* Messages each connection reads once there are several.
MaxEach == 1
\* Request identifiers a peer puts in a response range over 1..MaxReqId.
MaxReqId == 2

\* The concurrent connections (one worker each).
Conns == {"p1", "p2"}

\* ------------------------------------------------------------ block data

\* One block per number.  A hash stands for the block's whole header; the
\* header's fields are read off it.
Numbers == 1..MaxNumber
TDs == 1..MaxTD
HashOf(n) == 10 * n + 7
Hashes == {HashOf(n) : n \in Numbers}
GenesisHash == HashOf(0)
NumberOf(h) == h \div 10
\* The parent of a block is the block one number below it.
ParentHashOf(h) == HashOf(NumberOf(h) - 1)
Header(h) == [Hash |-> h, Number |-> NumberOf(h), ParentHash |-> ParentHashOf(h)]
Headers == {Header(h) : h \in Hashes}

NoHeader == [Hash |-> -1, Number |-> -1, ParentHash |-> -1]
NoError == "nil"

VARIABLES
    head,         \* the shared HeadBlock
    headMutex,    \* the shared RWMutex guarding head
    count,        \* the shared MessageCount
    peers,        \* what the Peers channel has received
    db,           \* the database's capability answers of this session
    pc,           \* where each connection's worker stands
    status,       \* the status packet a connection built
    err,          \* the error a connection's handshake or handler returned
    msg,          \* the message a connection handles or handled last
    requests,     \* conn.requests
    requestNum,   \* conn.requestNum
    oldestBlock,  \* conn.oldestBlock
    sent,         \* what the connection sent while handling msg
    written,      \* the database writes made while handling msg
    hasBlock,     \* the hashes HasBlock answered true for while handling msg
    issued,       \* every identifier getBlockData has allocated, in order
    resolved,     \* how many bodies responses have removed a request
    added,        \* what the connection's handlers have added to each counter
    prev,         \* the connection's fields as they were when it read msg
    nread         \* messages the connection has read in its loop

vars == <<head, headMutex, count, peers, db, pc, status, err, msg, requests,
          requestNum, oldestBlock, sent, written, hasBlock, issued, resolved,
          added, prev, nread>>

\* ------------------------------------------------------ session options

\* Eth66ProtocolOptions.NetworkID, and a network id a foreign peer reports.
LocalNetworkID == 137
OtherNetworkID == 1
\* eth.StatusPacket.ProtocolVersion as the sensor sets it.
ProtocolVersion == 66

\* forkid.NewID(config, genesis, head): a value fixed by the genesis and the
\* head number it is derived from.
NewID(genesis, number) == <<"forkid", genesis, number>>

\* Opts.Head as the session starts: the block the sensor was started at.
InitHead == [Hash |-> HashOf(1), TotalDifficulty |-> 1, Number |-> 1]

\* The capability answers a database can give for the whole session.
DbProfile(blocks, blockEvents, txs, txEvents) ==
    [ShouldWriteBlocks |-> blocks, ShouldWriteBlockEvents |-> blockEvents,
     ShouldWriteTransactions |-> txs, ShouldWriteTransactionEvents |-> txEvents]
DbProfiles ==
    { DbProfile(TRUE, TRUE, TRUE, TRUE),
      DbProfile(FALSE, TRUE, TRUE, FALSE),
      DbProfile(TRUE, FALSE, FALSE, TRUE) }

\* MessageCount: one int32 per category.
Counters == {"BlockHashes", "Transactions", "BlockHeaderRequests", "BlockHeaders",
             "BlockBodiesRequests", "BlockBodies", "Blocks", "TransactionRequests",
             "TransactionHashes"}

\* atomic.AddInt32: two's-complement addition of n >= 0 on 32 bits.
AddInt32(v, n) ==
    IF v > 2147483647 - n
    THEN ((v - 2147483647) + (n - 2147483647)) - 2
    ELSE v + n

\* ----------------------------------------------------- the worker's place

\* pc values.  "RLock": conn built, about to take the read lock (line 93).
\* "statusExchange": holds the read lock, about to send its status (166).
\* "statusRead": status sent, blocked reading the peer's status (171).
\* "RUnlock": statusExchange returned, about to release the read lock (103).
\* "Peers": about to send the node to the Peers channel (110).
\* "ReadMsg": blocked in rw.ReadMsg() of the loop (115).
\* "Lock": in handleNewBlock, about to call headMutex.Lock() (379).
\* "LockWait": blocked in headMutex.Lock().
\* "setHead": holds the write lock (380).  "Unlock": about to unlock (389).
\* "getParent": after the critical section (391).
\* "returned": Run has returned; the connection is over.
Handshaking(c) == pc[c] \in {"RLock", "statusExchange", "statusRead", "RUnlock", "Peers"}
Dispatching(c) == pc[c] \in {"ReadMsg", "Lock", "LockWait", "setHead", "Unlock", "getParent"}
Terminated(c) == pc[c] = "returned"

\* ------------------------------------------------------------- messages

\* An inbound message: its code, whether its payload decodes into the
\* handler's packet type, and the packet's fields.  Items is the packet's
\* list: block hashes (NewBlockHashesMsg), header hashes (BlockHeadersMsg),
\* the block (NewBlockMsg), bodies (BlockBodiesMsg), or the listed things of
\* the other codes.
Msg(code, id, items, td) ==
    [Code |-> code, Decodes |-> TRUE, RequestId |-> id, Items |-> items,
     TD |-> td, NetworkID |-> 0]
Undecodable(code) ==
    [Code |-> code, Decodes |-> FALSE, RequestId |-> 0, Items |-> <<>>,
     TD |-> 0, NetworkID |-> 0]
StatusReply(networkID) ==
    [Code |-> "StatusMsg", Decodes |-> TRUE, RequestId |-> 0, Items |-> <<>>,
     TD |-> 0, NetworkID |-> networkID]
NoMsg == Msg("none", 0, <<>>, 0)

\* The codes the loop's switch has a case for (lines 121-142).
HandledCodes == {"NewBlockHashesMsg", "TransactionsMsg", "GetBlockHeadersMsg",
                 "BlockHeadersMsg", "GetBlockBodiesMsg", "BlockBodiesMsg",
                 "NewBlockMsg", "NewPooledTransactionHashesMsg",
                 "GetPooledTransactionsMsg", "PooledTransactionsMsg",
                 "GetReceiptsMsg"}
\* Codes of the protocol's 17 that fall to the switch's default.
OtherCodes == {"StatusMsg", "ReceiptsMsg"}

\* Block bodies, transactions and the like are opaque: 1..n stands for n of
\* them.  A list a peer sends has at most MaxItems things.
MaxItems == 2
Opaque(n) == [i \in 1..n |-> i]
\* The blocks from number n down, at most MaxItems of them.
Down(n) == [i \in 1..(IF n < MaxItems THEN n ELSE MaxItems) |-> HashOf(n + 1 - i)]
ReqIds == 1..MaxReqId

\* What a peer can send into the loop.
Inbound ==
    {Msg("NewBlockHashesMsg", 0, l, 0) :
        l \in {<<>>, Down(MaxNumber)} \cup {<<h>> : h \in Hashes}}
    \cup {Msg("BlockHeadersMsg", 0, l, 0) :
        l \in {<<>>, Down(MaxNumber)} \cup {<<h>> : h \in Hashes}}
    \cup {Msg("NewBlockMsg", 0, <<h>>, td) : h \in Hashes, td \in TDs}
    \cup {Msg("BlockBodiesMsg", id, Opaque(n), 0) : id \in ReqIds, n \in {0, MaxItems}}
    \cup {Msg("TransactionsMsg", 0, Opaque(MaxItems), 0),
          Msg("PooledTransactionsMsg", 0, Opaque(1), 0),
          Msg("NewPooledTransactionHashesMsg", 0, Opaque(MaxItems), 0),
          Msg("GetBlockHeadersMsg", MaxReqId, <<>>, 0),
          Msg("GetBlockBodiesMsg", MaxReqId, Opaque(MaxItems), 0),
          Msg("GetPooledTransactionsMsg", MaxReqId, Opaque(1), 0),
          Msg("GetReceiptsMsg", MaxReqId, <<>>, 0)}
    \cup {Msg(code, 0, <<>>, 0) : code \in OtherCodes}
    \cup {Undecodable(code) : code \in HandledCodes}
InboundOf(code) == {m \in Inbound : m.Code = code}

\* What a peer can answer to the sensor's status.
StatusReplies ==
    {StatusReply(LocalNetworkID), StatusReply(OtherNetworkID),
     Undecodable("StatusMsg"), Msg("NewBlockMsg", 0, <<HashOf(1)>>, 1)}

\* What the sensor sends: the code and the packet.
Out(code, id, items) == [Code |-> code, RequestId |-> id, Items |-> items]
\* A database write: the operation and what it was handed.
Write(op, items, hash) == [Op |-> op, Items |-> items, Hash |-> hash]

\* ------------------------------------------------- the state at the start

\* A connection's own fields, with what it has issued and added so far.
Fields(reqs, num, oldest, ids, adds) ==
    [requests |-> reqs, requestNum |-> num, oldestBlock |-> oldest,
     issued |-> ids, added |-> adds]

\* The conn literal of Run (lines 80-91) and the session's shared values.
Init ==
    /\ head = InitHead
    /\ headMutex = [readers |-> {}, writer |-> {}, pending |-> {}]
    /\ count = [k \in Counters |-> 0]
    /\ peers = [c \in Conns |-> 0]
    /\ db \in DbProfiles
    /\ pc = [c \in Conns |-> "RLock"]
    /\ status = [c \in Conns |-> <<>>]
    /\ err = [c \in Conns |-> NoError]
    /\ msg = [c \in Conns |-> NoMsg]
    /\ requests = [c \in Conns |-> <<>>]
    /\ requestNum = [c \in Conns |-> 0]
    /\ oldestBlock = [c \in Conns |-> NoHeader]
    /\ sent = [c \in Conns |-> <<>>]
    /\ written = [c \in Conns |-> <<>>]
    /\ hasBlock = [c \in Conns |-> {}]
    /\ issued = [c \in Conns |-> <<>>]
    /\ resolved = [c \in Conns |-> 0]
    /\ added = [c \in Conns |-> [k \in Counters |-> 0]]
    /\ prev = [c \in Conns |-> Fields(<<>>, 0, NoHeader, <<>>, [k \in Counters |-> 0])]
    /\ nread = [c \in Conns |-> 0]

connVars == <<requests, requestNum, oldestBlock, issued, resolved, added>>
loopVars == <<msg, sent, written, hasBlock, prev, nread>>

\* ----------------------------------------------------------- handshake

\* The connections are alike: the first to start is called FirstConn, and
\* another one comes up while no connection has read more than MaxEach.
FirstConn == "p1"
CanStart(c) ==
    /\ c # FirstConn => pc[FirstConn] # "RLock"
    /\ \A d \in Conns : nread[d] <= MaxEach

\* Lines 93-101 with the read lock given back as soon as the packet is built.
RLockForPacketOnly(c) ==
    /\ pc[c] = "RLock"
    /\ CanStart(c)
    /\ headMutex.writer = {} /\ headMutex.pending = {}
    /\ status' = [status EXCEPT ![c] =
                    [ProtocolVersion |-> ProtocolVersion,
                     NetworkID |-> LocalNetworkID,
                     Genesis |-> GenesisHash,
                     ForkID |-> NewID(GenesisHash, head.Number),
                     Head |-> head.Hash,
                     TD |-> head.TotalDifficulty]]
    /\ pc' = [pc EXCEPT ![c] = "statusExchange"]
    /\ UNCHANGED <<head, headMutex, count, peers, db, err, connVars, loopVars>>

\* Lines 93-101: take the read lock and build the status packet from the
\* head.  RLock blocks while a writer holds the lock or waits for it.
RLock(c) ==
    /\ pc[c] = "RLock"
    /\ CanStart(c)
    /\ headMutex.writer = {} /\ headMutex.pending = {}
    /\ headMutex' = [headMutex EXCEPT !.readers = @ \cup {c}]
    /\ status' = [status EXCEPT ![c] =
                    [ProtocolVersion |-> ProtocolVersion,
                     NetworkID |-> LocalNetworkID,
                     Genesis |-> GenesisHash,
                     ForkID |-> NewID(GenesisHash, head.Number),
                     Head |-> head.Hash,
                     TD |-> head.TotalDifficulty]]
    /\ pc' = [pc EXCEPT ![c] = "statusExchange"]
    /\ UNCHANGED <<head, count, peers, db, err, connVars, loopVars>>

\* Lines 166-169: send the status; a failed send is returned.
statusExchangeSend(c) ==
    /\ pc[c] = "statusExchange"
    /\ \E ok \in BOOLEAN :
         IF ok
         THEN /\ sent' = [sent EXCEPT ![c] = Append(@, Out("StatusMsg", 0, <<status[c]>>))]
              /\ pc' = [pc EXCEPT ![c] = "statusRead"]
              /\ err' = err
         ELSE /\ sent' = sent
              /\ pc' = [pc EXCEPT ![c] = "RUnlock"]
              /\ err' = [err EXCEPT ![c] = "send"]
    /\ UNCHANGED <<head, headMutex, count, peers, db, status, connVars,
                   msg, written, hasBlock, prev, nread>>

\* statusExchange with the test of lines 176-178 turned round: a reply of
\* another code is let through.
statusExchangeOfAnyCode(packet, m) ==
    IF m.Code # "StatusMsg" THEN NoError
    ELSE IF ~m.Decodes THEN "decode"
    ELSE IF m.NetworkID # packet.NetworkID THEN "DiscUselessPeer"
    ELSE NoError

\* statusExchange without the comparison of lines 186-188.
statusExchangeOfAnyNetwork(packet, m) ==
    IF m.Code # "StatusMsg" THEN "expected status message code"
    ELSE IF ~m.Decodes THEN "decode"
    ELSE NoError

\* statusExchange from the read on (lines 171-192): the error it returns for
\* the peer's reply m.
statusExchange(packet, m) ==
    IF m.Code # "StatusMsg" THEN "expected status message code"
    ELSE IF ~m.Decodes THEN "decode"
    ELSE IF m.NetworkID # packet.NetworkID THEN "DiscUselessPeer"
    ELSE NoError

\* Lines 171-192: the read returns the peer's reply.
statusExchangeRead(c) ==
    /\ pc[c] = "statusRead"
    /\ \E m \in StatusReplies :
         /\ msg' = [msg EXCEPT ![c] = m]
         /\ err' = [err EXCEPT ![c] = statusExchange(status[c], m)]
    /\ pc' = [pc EXCEPT ![c] = "RUnlock"]
    /\ UNCHANGED <<head, headMutex, count, peers, db, status, connVars,
                   sent, written, hasBlock, prev, nread>>

\* Lines 171-174: the read fails (the peer closed, the transport timed out).
statusExchangeReadFails(c) ==
    /\ pc[c] = "statusRead"
    /\ err' = [err EXCEPT ![c] = "read"]
    /\ pc' = [pc EXCEPT ![c] = "RUnlock"]
    /\ UNCHANGED <<head, headMutex, count, peers, db, status, connVars, loopVars>>

\* Lines 104-106 without the return: Run goes on whatever the error.
AfterStatusGoOn(e) == "Peers"

\* The place Run goes to once the read lock is released (lines 104-106).
AfterStatus(e) == IF e # NoError THEN "returned" ELSE "Peers"

\* Lines 103-106 with the release after the return of the error.
RUnlockAfterReturn(c) ==
    /\ pc[c] = "RUnlock"
    /\ headMutex' = IF err[c] # NoError THEN headMutex
                    ELSE [headMutex EXCEPT !.readers = @ \ {c}]
    /\ pc' = [pc EXCEPT ![c] = AfterStatus(err[c])]
    /\ UNCHANGED <<head, count, peers, db, status, err, connVars, loopVars>>

\* Lines 103-106: release the read lock; return the handshake's error.
RUnlock(c) ==
    /\ pc[c] = "RUnlock"
    /\ headMutex' = [headMutex EXCEPT !.readers = @ \ {c}]
    /\ pc' = [pc EXCEPT ![c] = AfterStatus(err[c])]
    /\ UNCHANGED <<head, count, peers, db, status, err, connVars, loopVars>>

\* Line 110: send the node to the Peers channel, then enter the loop.
Peers(c) ==
    /\ pc[c] = "Peers"
    /\ peers' = [peers EXCEPT ![c] = @ + 1]
    /\ pc' = [pc EXCEPT ![c] = "ReadMsg"]
    /\ UNCHANGED <<head, headMutex, count, db, status, err, connVars, loopVars>>

\* ------------------------------------------------------------- handlers

\* What a handler works on: the connection's fields, the shared counters,
\* and what it has sent and written so far.  The k-th Send of a handler
\* fails when k = failAt (0: none fails); `known` are the hashes the
\* database's HasBlock answers true for while the handler runs.
Local(c) ==
    [requests |-> requests[c], requestNum |-> requestNum[c],
     oldestBlock |-> oldestBlock[c], issued |-> issued[c],
     resolved |-> resolved[c], count |-> count,
     added |-> added[c], sent |-> <<>>, written |-> <<>>, known |-> {},
     err |-> NoError]
\* The fields as they are when the connection reads a message.
Snapshot(c) ==
    Fields(requests[c], requestNum[c], oldestBlock[c], issued[c], added[c])
Knowing(st, known) == [st EXCEPT !.known = known]

SendFails(st, failAt) == Len(st.sent) + 1 = failAt
Send(st, code, id, items) == [st EXCEPT !.sent = Append(@, Out(code, id, items))]
Failed(st, e) == [st EXCEPT !.err = e]

\* The add as a plain store of the handler's own number.
AddCountStoring(st, k, n) ==
    [st EXCEPT !.count[k] = n, !.added[k] = @ + n]

\* atomic.AddInt32 on a field of conn.count (line 255 and the like).
AddCount(st, k, n) ==
    [st EXCEPT !.count[k] = AddInt32(@, n), !.added[k] = @ + n]

\* Lines 211-215 with the identifier taken from the length of the list.
PushRequestByLength(st, hash) ==
    [st EXCEPT !.requestNum = Len(st.requests) + 1,
               !.requests = Append(@, [requestID |-> Len(st.requests) + 1, hash |-> hash]),
               !.issued = Append(@, Len(st.requests) + 1)]

\* Lines 211-215 with PushFront for PushBack.
PushRequestAtFront(st, hash) ==
    [st EXCEPT !.requestNum = @ + 1,
               !.requests = <<[requestID |-> st.requestNum + 1, hash |-> hash]>> \o @,
               !.issued = Append(@, st.requestNum + 1)]

\* Lines 211-215: c.requestNum++ and the PushBack of the request.
PushRequest(st, hash) ==
    [st EXCEPT !.requestNum = @ + 1,
               !.requests = Append(@, [requestID |-> st.requestNum + 1, hash |-> hash]),
               !.issued = Append(@, st.requestNum + 1)]

\* Lines 197-222 with the request recorded after the get-bodies send.
getBlockDataPushingLast(st, hash, failAt) ==
    IF SendFails(st, failAt) THEN Failed(st, "send")
    ELSE LET s1 == Send(st, "GetBlockHeadersMsg", 0, <<[Origin |-> hash, Amount |-> 1]>>)
         IN  IF SendFails(s1, failAt) THEN Failed(s1, "send")
             ELSE PushRequest(Send(s1, "GetBlockBodiesMsg", s1.requestNum + 1, <<hash>>),
                              hash)

\* Lines 197-222.
getBlockData(st, hash, failAt) ==
    IF SendFails(st, failAt) THEN Failed(st, "send")
    ELSE LET s1 == PushRequest(Send(st, "GetBlockHeadersMsg", 0,
                                    <<[Origin |-> hash, Amount |-> 1]>>), hash)
         IN  IF SendFails(s1, failAt) THEN Failed(s1, "send")
             ELSE Send(s1, "GetBlockBodiesMsg", s1.requestNum, <<hash>>)

\* Line 237 letting a header at the oldest block's number through.
NoFetchBelowOnly(st, header) ==
    \/ header.ParentHash \in st.known
    \/ ~(header.Number >= st.oldestBlock.Number)

\* Line 237 with "and" for "or".
NoFetchWhenBoth(st, header) ==
    /\ header.ParentHash \in st.known
    /\ ~(header.Number > st.oldestBlock.Number)

\* Line 237 without the comparison with the oldest block.
NoFetchWhenKnown(st, header) == header.ParentHash \in st.known

\* Line 237: the header is no reason to fetch its parent.
NoFetch(st, header) ==
    \/ header.ParentHash \in st.known
    \/ ~(header.Number > st.oldestBlock.Number)

\* Lines 226-247 going on to the fetch after setting the oldest block.
getParentBlockOfFirst(st, header, failAt) ==
    IF ~db.ShouldWriteBlocks \/ ~db.ShouldWriteBlockEvents THEN st
    ELSE IF st.oldestBlock = NoHeader
         THEN getBlockData([st EXCEPT !.oldestBlock = header], header.ParentHash, failAt)
    ELSE IF NoFetch(st, header) THEN st
    ELSE getBlockData(st, header.ParentHash, failAt)

\* Lines 226-247 stopping at line 227 only when the database wants neither.
getParentBlockUnlessEither(st, header, failAt) ==
    IF ~db.ShouldWriteBlocks /\ ~db.ShouldWriteBlockEvents THEN st
    ELSE IF st.oldestBlock = NoHeader THEN [st EXCEPT !.oldestBlock = header]
    ELSE IF NoFetch(st, header) THEN st
    ELSE getBlockData(st, header.ParentHash, failAt)

\* Lines 226-247 with the oldest block replaced by a header below it.
getParentBlockLoweringOldest(st, header, failAt) ==
    IF ~db.ShouldWriteBlocks \/ ~db.ShouldWriteBlockEvents THEN st
    ELSE IF st.oldestBlock = NoHeader \/ header.Number < st.oldestBlock.Number
         THEN [st EXCEPT !.oldestBlock = header]
    ELSE IF NoFetch(st, header) THEN st
    ELSE getBlockData(st, header.ParentHash, failAt)

\* Lines 226-247.
getParentBlock(st, header, failAt) ==
    IF ~db.ShouldWriteBlocks \/ ~db.ShouldWriteBlockEvents THEN st
    ELSE IF st.oldestBlock = NoHeader THEN [st EXCEPT !.oldestBlock = header]
    ELSE IF NoFetch(st, header) THEN st
    ELSE getBlockData(st, header.ParentHash, failAt)

\* Lines 258-263: the loop over the announced hashes, from the i-th on.
RECURSIVE hashesLoop(_, _, _, _)
hashesLoop(st, hashes, i, failAt) ==
    IF i > Len(hashes) THEN st
    ELSE LET s1 == getBlockData(st, hashes[i], failAt)
         IN  IF s1.err # NoError THEN s1 ELSE hashesLoop(s1, hashes, i + 1, failAt)

\* Lines 249-268 with the fetches made only for a database that wants
\* blocks and block events.
handleNewBlockHashesWhenWanted(st, m, failAt) ==
    IF ~m.Decodes THEN Failed(st, "decode")
    ELSE LET s0 == AddCount(st, "BlockHashes", Len(m.Items))
             s1 == IF ~db.ShouldWriteBlocks \/ ~db.ShouldWriteBlockEvents THEN s0
                   ELSE hashesLoop(s0, m.Items, 1, failAt)
         IN  IF s1.err # NoError THEN s1
             ELSE [s1 EXCEPT !.written = Append(@, Write("WriteBlockHashes", m.Items, 0))]

\* Lines 249-268.
handleNewBlockHashes(st, m, failAt) ==
    IF ~m.Decodes THEN Failed(st, "decode")
    ELSE LET s1 == hashesLoop(AddCount(st, "BlockHashes", Len(m.Items)), m.Items, 1, failAt)
         IN  IF s1.err # NoError THEN s1
             ELSE [s1 EXCEPT !.written = Append(@, Write("WriteBlockHashes", m.Items, 0))]

\* Lines 270-281.
handleTransactions(st, m) ==
    IF ~m.Decodes THEN Failed(st, "decode")
    ELSE [AddCount(st, "Transactions", Len(m.Items))
            EXCEPT !.written = Append(@, Write("WriteTransactions", m.Items, 0))]

\* Lines 283-296.
handleGetBlockHeaders(st, m, failAt) ==
    IF ~m.Decodes THEN Failed(st, "decode")
    ELSE LET s1 == AddCount(st, "BlockHeaderRequests", 1)
         IN  IF SendFails(s1, failAt) THEN Failed(s1, "send")
             ELSE Send(s1, "BlockHeadersMsg", m.RequestId, <<>>)

\* Lines 307-311: the loop over the headers, from the i-th on.
RECURSIVE headersLoop(_, _, _, _)
headersLoop(st, headers, i, failAt) ==
    IF i > Len(headers) THEN st
    ELSE LET s1 == getParentBlock(st, Header(headers[i]), failAt)
         IN  IF s1.err # NoError THEN s1
             ELSE headersLoop(s1, headers, i + 1, failAt)

\* Lines 298-316 counting the message, not its headers.
handleBlockHeadersCountingOne(st, m, failAt) ==
    IF ~m.Decodes THEN Failed(st, "decode")
    ELSE LET s1 == headersLoop(AddCount(st, "BlockHeaders", 1), m.Items, 1, failAt)
         IN  IF s1.err # NoError THEN s1
             ELSE [s1 EXCEPT !.written = Append(@, Write("WriteBlockHeaders", m.Items, 0))]

\* Lines 298-316.
handleBlockHeaders(st, m, failAt) ==
    IF ~m.Decodes THEN Failed(st, "decode")
    ELSE LET s1 == headersLoop(AddCount(st, "BlockHeaders", Len(m.Items)),
                               m.Items, 1, failAt)
         IN  IF s1.err # NoError THEN s1
             ELSE [s1 EXCEPT !.written = Append(@, Write("WriteBlockHeaders", m.Items, 0))]

\* Lines 318-331 with a response that does not carry the request's identifier.
handleGetBlockBodiesUntagged(st, m, failAt) ==
    IF ~m.Decodes THEN Failed(st, "decode")
    ELSE LET s1 == AddCount(st, "BlockBodiesRequests", Len(m.Items))
         IN  IF SendFails(s1, failAt) THEN Failed(s1, "send")
             ELSE Send(s1, "BlockBodiesMsg", 0, <<>>)

\* Lines 318-331.
handleGetBlockBodies(st, m, failAt) ==
    IF ~m.Decodes THEN Failed(st, "decode")
    ELSE LET s1 == AddCount(st, "BlockBodiesRequests", Len(m.Items))
         IN  IF SendFails(s1, failAt) THEN Failed(s1, "send")
             ELSE Send(s1, "BlockBodiesMsg", m.RequestId, <<>>)

\* Lines 346-358 with the front request taken when none has the identifier.
findRequestOrFront(reqs, id, i) ==
    IF \E j \in i..Len(reqs) : reqs[j].requestID = id
    THEN CHOOSE j \in i..Len(reqs) :
            /\ reqs[j].requestID = id
            /\ \A k \in i..(j - 1) : reqs[k].requestID # id
    ELSE IF Len(reqs) >= i THEN i ELSE 0

\* Lines 346-358: the index of the first request with this identifier, 0 if
\* there is none, scanning from the i-th on.
RECURSIVE findRequest(_, _, _)
findRequest(reqs, id, i) ==
    IF i > Len(reqs) THEN 0
    ELSE IF reqs[i].requestID = id THEN i
    ELSE findRequest(reqs, id, i + 1)

\* list.Remove of the front element, whichever was found.
RemoveFront(reqs, i) == Tail(reqs)

\* list.Remove of the i-th element.
Remove(reqs, i) == SubSeq(reqs, 1, i - 1) \o SubSeq(reqs, i + 1, Len(reqs))

\* Lines 333-368 without the early return of lines 339-341.
handleBlockBodiesOfAnyLength(st, m) ==
    IF ~m.Decodes THEN Failed(st, "decode")
    ELSE LET s1 == AddCount(st, "BlockBodies", Len(m.Items))
             i == findRequest(s1.requests, m.RequestId, 1)
         IN  IF i = 0 THEN s1
             ELSE [s1 EXCEPT !.requests = Remove(@, i),
                             !.resolved = @ + 1,
                             !.written = Append(@, Write("WriteBlockBody", m.Items,
                                                         s1.requests[i].hash))]

\* Lines 333-368 with the oldest request given up when none has the
\* identifier.
handleBlockBodiesEvicting(st, m) ==
    IF ~m.Decodes THEN Failed(st, "decode")
    ELSE IF Len(m.Items) = 0 THEN st
    ELSE LET s1 == AddCount(st, "BlockBodies", Len(m.Items))
             i == findRequest(s1.requests, m.RequestId, 1)
         IN  IF i = 0 THEN [s1 EXCEPT !.requests = IF @ = <<>> THEN @ ELSE Tail(@)]
             ELSE [s1 EXCEPT !.requests = Remove(@, i),
                             !.resolved = @ + 1,
                             !.written = Append(@, Write("WriteBlockBody", <<m.Items[1]>>,
                                                         s1.requests[i].hash))]

\* Lines 333-368.
handleBlockBodies(st, m) ==
    IF ~m.Decodes THEN Failed(st, "decode")
    ELSE IF Len(m.Items) = 0 THEN st
    ELSE LET s1 == AddCount(st, "BlockBodies", Len(m.Items))
             i == findRequest(s1.requests, m.RequestId, 1)
         IN  IF i = 0 THEN s1
             ELSE [s1 EXCEPT !.requests = Remove(@, i),
                             !.resolved = @ + 1,
                             !.written = Append(@, Write("WriteBlockBody", <<m.Items[1]>>,
                                                         s1.requests[i].hash))]

\* Lines 400-412.
handleGetPooledTransactions(st, m, failAt) ==
    IF ~m.Decodes THEN Failed(st, "decode")
    ELSE LET s1 == AddCount(st, "TransactionRequests", Len(m.Items))
         IN  IF SendFails(s1, failAt) THEN Failed(s1, "send")
             ELSE Send(s1, "PooledTransactionsMsg", m.RequestId, <<>>)

\* Lines 414-433.
handleNewPooledTransactionHashes(st, m, failAt) ==
    IF ~m.Decodes THEN Failed(st, "decode")
    ELSE LET s1 == AddCount(st, "TransactionHashes", Len(m.Items))
         IN  IF ~db.ShouldWriteTransactions \/ ~db.ShouldWriteTransactionEvents THEN s1
             ELSE IF SendFails(s1, failAt) THEN Failed(s1, "send")
             ELSE Send(s1, "GetPooledTransactionsMsg", 0, m.Items)

\* Lines 435-446.
handlePooledTransactions(st, m) ==
    IF ~m.Decodes THEN Failed(st, "decode")
    ELSE [AddCount(st, "Transactions", Len(m.Items))
            EXCEPT !.written = Append(@, Write("WriteTransactions", m.Items, 0))]

\* Lines 448-458.
handleGetReceipts(st, m, failAt) ==
    IF ~m.Decodes THEN Failed(st, "decode")
    ELSE IF SendFails(st, failAt) THEN Failed(st, "send")
    ELSE Send(st, "ReceiptsMsg", m.RequestId, <<>>)

\* -------------------------------------------------------------- the loop

\* The connection is blocked in ReadMsg and the peer may still send: a
\* connection that is the only one reads at most MaxMsgs messages, and once
\* a second connection is up each reads at most MaxEach.
Started(c) == pc[c] # "RLock"
Alone(c) == \A d \in Conns \ {c} : ~Started(d)

\* The read with the new-block handler left running on its own: the loop
\* reads on while the handler waits for the lock.
CanReadBesideHandler(c) ==
    /\ pc[c] \in {"ReadMsg", "Lock"}
    /\ nread[c] < (IF Alone(c) THEN MaxMsgs ELSE MaxEach)

\* Lines 114-118: the worker is at rw.ReadMsg and the peer has a message.
CanRead(c) ==
    /\ pc[c] = "ReadMsg"
    /\ nread[c] < (IF Alone(c) THEN MaxMsgs ELSE MaxEach)

\* The hashes getParentBlock asks HasBlock about for the headers of m: the
\* parent of every header once the oldest block is set (line 237).
Asked(c, m) ==
    IF ~db.ShouldWriteBlocks \/ ~db.ShouldWriteBlockEvents THEN {}
    ELSE {ParentHashOf(m.Items[i]) :
            i \in (IF oldestBlock[c] = NoHeader THEN 2 ELSE 1)..Len(m.Items)}

\* The end of one turn of the loop (lines 150-157): the handler's error or
\* a failed Discard ends Run; otherwise the loop reads again.
LoopErr(st, discarded) ==
    IF st.err # NoError THEN st.err
    ELSE IF ~discarded THEN "discard"
    ELSE NoError
\* Lines 150-157 with the error of Discard dropped.
AfterHandlerUnlessDiscard(e) ==
    IF e \notin {NoError, "discard"} THEN "returned" ELSE "ReadMsg"

AfterHandler(e) == IF e # NoError THEN "returned" ELSE "ReadMsg"

\* Settle with the head moved up to the connection's oldest block.
SettleMovingHead(c, st, discarded) ==
    /\ requests' = [requests EXCEPT ![c] = st.requests]
    /\ requestNum' = [requestNum EXCEPT ![c] = st.requestNum]
    /\ oldestBlock' = [oldestBlock EXCEPT ![c] = st.oldestBlock]
    /\ issued' = [issued EXCEPT ![c] = st.issued]
    /\ resolved' = [resolved EXCEPT ![c] = st.resolved]
    /\ added' = [added EXCEPT ![c] = st.added]
    /\ sent' = [sent EXCEPT ![c] = st.sent]
    /\ written' = [written EXCEPT ![c] = st.written]
    /\ hasBlock' = [hasBlock EXCEPT ![c] = st.known]
    /\ count' = st.count
    /\ err' = [err EXCEPT ![c] = LoopErr(st, discarded)]
    /\ pc' = [pc EXCEPT ![c] = AfterHandler(LoopErr(st, discarded))]
    /\ head' = IF st.oldestBlock.Number > head.Number
               THEN [head EXCEPT !.Hash = st.oldestBlock.Hash,
                                 !.Number = st.oldestBlock.Number]
               ELSE head
    /\ UNCHANGED <<headMutex, peers, db, status>>

\* Settle with one list of requests for all connections.
SettleInSharedList(c, st, discarded) ==
    /\ requests' = [d \in Conns |-> st.requests]
    /\ requestNum' = [requestNum EXCEPT ![c] = st.requestNum]
    /\ oldestBlock' = [oldestBlock EXCEPT ![c] = st.oldestBlock]
    /\ issued' = [issued EXCEPT ![c] = st.issued]
    /\ resolved' = [resolved EXCEPT ![c] = st.resolved]
    /\ added' = [added EXCEPT ![c] = st.added]
    /\ sent' = [sent EXCEPT ![c] = st.sent]
    /\ written' = [written EXCEPT ![c] = st.written]
    /\ hasBlock' = [hasBlock EXCEPT ![c] = st.known]
    /\ count' = st.count
    /\ err' = [err EXCEPT ![c] = LoopErr(st, discarded)]
    /\ pc' = [pc EXCEPT ![c] = AfterHandler(LoopErr(st, discarded))]
    /\ UNCHANGED <<head, headMutex, peers, db, status>>

\* The handler left st: store what it did and go on as line 150-157 say.
Settle(c, st, discarded) ==
    /\ requests' = [requests EXCEPT ![c] = st.requests]
    /\ requestNum' = [requestNum EXCEPT ![c] = st.requestNum]
    /\ oldestBlock' = [oldestBlock EXCEPT ![c] = st.oldestBlock]
    /\ issued' = [issued EXCEPT ![c] = st.issued]
    /\ resolved' = [resolved EXCEPT ![c] = st.resolved]
    /\ added' = [added EXCEPT ![c] = st.added]
    /\ sent' = [sent EXCEPT ![c] = st.sent]
    /\ written' = [written EXCEPT ![c] = st.written]
    /\ hasBlock' = [hasBlock EXCEPT ![c] = st.known]
    /\ count' = st.count
    /\ err' = [err EXCEPT ![c] = LoopErr(st, discarded)]
    /\ pc' = [pc EXCEPT ![c] = AfterHandler(LoopErr(st, discarded))]
    /\ UNCHANGED <<head, headMutex, peers, db, status>>

\* One turn of the loop for message m whose handler left st.
Turn(c, m, st, discarded) ==
    /\ msg' = [msg EXCEPT ![c] = m]
    /\ nread' = [nread EXCEPT ![c] = @ + 1]
    /\ prev' = [prev EXCEPT ![c] = Snapshot(c)]
    /\ Settle(c, st, discarded)

\* Lines 115-118: the read fails, and there is no message to handle.
ReadMsgFails(c) ==
    /\ pc[c] = "ReadMsg"
    /\ err' = [err EXCEPT ![c] = "read"]
    /\ pc' = [pc EXCEPT ![c] = "returned"]
    /\ msg' = [msg EXCEPT ![c] = NoMsg]
    /\ sent' = [sent EXCEPT ![c] = <<>>]
    /\ written' = [written EXCEPT ![c] = <<>>]
    /\ hasBlock' = [hasBlock EXCEPT ![c] = {}]
    /\ prev' = [prev EXCEPT ![c] = Snapshot(c)]
    /\ UNCHANGED <<head, headMutex, count, peers, db, status, connVars, nread>>

\* The sends a handler makes when none fails: any one of them may fail.
Sends(st) == 0..Len(st.sent)
\* Discard is reached only when the handler returned no error.
Discards(st) == IF st.err = NoError THEN BOOLEAN ELSE {TRUE}

HandleNewBlockHashes(c) ==
    /\ CanRead(c)
    /\ \E m \in InboundOf("NewBlockHashesMsg") :
         \E failAt \in Sends(handleNewBlockHashes(Local(c), m, 0)) :
            \E discarded \in Discards(handleNewBlockHashes(Local(c), m, failAt)) :
               Turn(c, m, handleNewBlockHashes(Local(c), m, failAt), discarded)

HandleTransactions(c) ==
    /\ CanRead(c)
    /\ \E m \in InboundOf("TransactionsMsg") :
         \E discarded \in Discards(handleTransactions(Local(c), m)) :
            Turn(c, m, handleTransactions(Local(c), m), discarded)

HandleGetBlockHeaders(c) ==
    /\ CanRead(c)
    /\ \E m \in InboundOf("GetBlockHeadersMsg") :
         \E failAt \in Sends(handleGetBlockHeaders(Local(c), m, 0)) :
            \E discarded \in Discards(handleGetBlockHeaders(Local(c), m, failAt)) :
               Turn(c, m, handleGetBlockHeaders(Local(c), m, failAt), discarded)

HandleBlockHeaders(c) ==
    /\ CanRead(c)
    /\ \E m \in InboundOf("BlockHeadersMsg") :
         \E known \in SUBSET Asked(c, m) :
            \E failAt \in Sends(handleBlockHeaders(Knowing(Local(c), known), m, 0)) :
               \E discarded \in Discards(handleBlockHeaders(Knowing(Local(c), known), m, failAt)) :
                  Turn(c, m, handleBlockHeaders(Knowing(Local(c), known), m, failAt), discarded)

HandleGetBlockBodies(c) ==
    /\ CanRead(c)
    /\ \E m \in InboundOf("GetBlockBodiesMsg") :
         \E failAt \in Sends(handleGetBlockBodies(Local(c), m, 0)) :
            \E discarded \in Discards(handleGetBlockBodies(Local(c), m, failAt)) :
               Turn(c, m, handleGetBlockBodies(Local(c), m, failAt), discarded)

HandleBlockBodies(c) ==
    /\ CanRead(c)
    /\ \E m \in InboundOf("BlockBodiesMsg") :
         \E discarded \in Discards(handleBlockBodies(Local(c), m)) :
            Turn(c, m, handleBlockBodies(Local(c), m), discarded)

HandleNewPooledTransactionHashes(c) ==
    /\ CanRead(c)
    /\ \E m \in InboundOf("NewPooledTransactionHashesMsg") :
         \E failAt \in Sends(handleNewPooledTransactionHashes(Local(c), m, 0)) :
            \E discarded \in Discards(handleNewPooledTransactionHashes(Local(c), m, failAt)) :
               Turn(c, m, handleNewPooledTransactionHashes(Local(c), m, failAt), discarded)

HandleGetPooledTransactions(c) ==
    /\ CanRead(c)
    /\ \E m \in InboundOf("GetPooledTransactionsMsg") :
         \E failAt \in Sends(handleGetPooledTransactions(Local(c), m, 0)) :
            \E discarded \in Discards(handleGetPooledTransactions(Local(c), m, failAt)) :
               Turn(c, m, handleGetPooledTransactions(Local(c), m, failAt), discarded)

HandlePooledTransactions(c) ==
    /\ CanRead(c)
    /\ \E m \in InboundOf("PooledTransactionsMsg") :
         \E discarded \in Discards(handlePooledTransactions(Local(c), m)) :
            Turn(c, m, handlePooledTransactions(Local(c), m), discarded)

HandleGetReceipts(c) ==
    /\ CanRead(c)
    /\ \E m \in InboundOf("GetReceiptsMsg") :
         \E failAt \in Sends(handleGetReceipts(Local(c), m, 0)) :
            \E discarded \in Discards(handleGetReceipts(Local(c), m, failAt)) :
               Turn(c, m, handleGetReceipts(Local(c), m, failAt), discarded)

\* Lines 143-144 with an error for a code the switch has no case for.
HandleDefaultAsError(c) ==
    /\ CanRead(c)
    /\ \E m \in {x \in Inbound : x.Code \notin HandledCodes} :
         Turn(c, m, Failed(Local(c), "unhandled"), TRUE)

\* Lines 143-144: a code the switch has no case for is only logged.
HandleDefault(c) ==
    /\ CanRead(c)
    /\ \E m \in {x \in Inbound : x.Code \notin HandledCodes}, discarded \in BOOLEAN :
         Turn(c, m, Local(c), discarded)

\* ------------------------------------------------------- handleNewBlock

\* Lines 370-376: read a new-block message, decode it, count it.
handleNewBlockCount(st, m) ==
    IF ~m.Decodes THEN Failed(st, "decode") ELSE AddCount(st, "Blocks", 1)

HandleNewBlock(c) ==
    /\ CanRead(c)
    /\ \E m \in InboundOf("NewBlockMsg") :
         LET st == handleNewBlockCount(Local(c), m)
         IN  /\ msg' = [msg EXCEPT ![c] = m]
             /\ nread' = [nread EXCEPT ![c] = @ + 1]
             /\ sent' = [sent EXCEPT ![c] = <<>>]
             /\ written' = [written EXCEPT ![c] = <<>>]
             /\ hasBlock' = [hasBlock EXCEPT ![c] = {}]
             /\ prev' = [prev EXCEPT ![c] = Snapshot(c)]
             /\ count' = st.count
             /\ added' = [added EXCEPT ![c] = st.added]
             /\ err' = [err EXCEPT ![c] = st.err]
             /\ pc' = [pc EXCEPT ![c] = IF st.err # NoError THEN "returned" ELSE "Lock"]
    /\ UNCHANGED <<head, headMutex, peers, db, status, requests, requestNum,
                   oldestBlock, issued, resolved>>

\* Line 379, headMutex.Lock(): the caller takes the writers' turn when no
\* other writer has it; it holds the lock at once when no reader does, and
\* otherwise waits for the readers to leave, keeping new readers out.
Lock(c) ==
    /\ pc[c] = "Lock"
    /\ headMutex.writer = {} /\ headMutex.pending = {}
    /\ IF headMutex.readers = {}
       THEN /\ headMutex' = [headMutex EXCEPT !.writer = {c}]
            /\ pc' = [pc EXCEPT ![c] = "setHead"]
       ELSE /\ headMutex' = [headMutex EXCEPT !.pending = {c}]
            /\ pc' = [pc EXCEPT ![c] = "LockWait"]
    /\ UNCHANGED <<head, count, peers, db, status, err, connVars, loopVars>>

\* headMutex.Lock() returns once the last reader has left.
LockAcquire(c) ==
    /\ pc[c] = "LockWait"
    /\ c \in headMutex.pending
    /\ headMutex.readers = {}
    /\ headMutex' = [headMutex EXCEPT !.pending = {}, !.writer = {c}]
    /\ pc' = [pc EXCEPT ![c] = "setHead"]
    /\ UNCHANGED <<head, count, peers, db, status, err, connVars, loopVars>>

\* Line 380 with "or" for "and": one of the two comparisons is enough.
NewerInEither(h, m) ==
    \/ NumberOf(m.Items[1]) > h.Number
    \/ m.TD > h.TotalDifficulty

\* Line 380: the block is newer than the head h.
Newer(h, m) ==
    /\ NumberOf(m.Items[1]) > h.Number
    /\ m.TD > h.TotalDifficulty

\* Lines 381-385 with the total difficulty left out of the new head.
HeadOfKeepingTD(m) ==
    [Hash |-> m.Items[1], TotalDifficulty |-> head.TotalDifficulty,
     Number |-> NumberOf(m.Items[1])]

\* Lines 381-385: the head block made of message m.
HeadOf(m) ==
    [Hash |-> m.Items[1], TotalDifficulty |-> m.TD, Number |-> NumberOf(m.Items[1])]

\* Lines 380-388.
setHead(c) ==
    /\ pc[c] = "setHead"
    /\ head' = IF Newer(head, msg[c]) THEN HeadOf(msg[c]) ELSE head
    /\ pc' = [pc EXCEPT ![c] = "Unlock"]
    /\ UNCHANGED <<headMutex, count, peers, db, status, err, connVars, loopVars>>

\* Line 389 as a deferred call: the lock is kept until the handler returns.
UnlockDeferred(c) ==
    /\ pc[c] = "Unlock"
    /\ pc' = [pc EXCEPT ![c] = "getParent"]
    /\ UNCHANGED <<head, headMutex, count, peers, db, status, err, connVars, loopVars>>

\* Line 389.
Unlock(c) ==
    /\ pc[c] = "Unlock"
    /\ headMutex' = [headMutex EXCEPT !.writer = @ \ {c}]
    /\ pc' = [pc EXCEPT ![c] = "getParent"]
    /\ UNCHANGED <<head, count, peers, db, status, err, connVars, loopVars>>

\* Lines 391-397 with the block written before the parent is fetched.
handleNewBlockRestWritingFirst(st, m, failAt) ==
    getParentBlock([st EXCEPT !.written = Append(@, Write("WriteBlock", m.Items, m.TD))],
                   Header(m.Items[1]), failAt)

\* Lines 391-397: fetch the parent, then write the block.
handleNewBlockRest(st, m, failAt) ==
    LET s1 == getParentBlock(st, Header(m.Items[1]), failAt)
    IN  IF s1.err # NoError THEN s1
        ELSE [s1 EXCEPT !.written = Append(@, Write("WriteBlock", m.Items, m.TD))]

HandleNewBlockRest(c) ==
    /\ pc[c] = "getParent"
    /\ \E known \in SUBSET Asked(c, msg[c]) :
         \E failAt \in Sends(handleNewBlockRest(Knowing(Local(c), known), msg[c], 0)) :
            \E discarded \in Discards(handleNewBlockRest(Knowing(Local(c), known), msg[c], failAt)) :
               Settle(c, handleNewBlockRest(Knowing(Local(c), known), msg[c], failAt), discarded)
    /\ UNCHANGED <<msg, nread, prev>>

\* ------------------------------------------------------------- the whole

Next ==
    \E c \in Conns :
        \/ RLock(c)
        \/ statusExchangeSend(c)
        \/ statusExchangeRead(c)
        \/ statusExchangeReadFails(c)
        \/ RUnlock(c)
        \/ Peers(c)
        \/ ReadMsgFails(c)
        \/ HandleNewBlockHashes(c)
        \/ HandleTransactions(c)
        \/ HandleGetBlockHeaders(c)
        \/ HandleBlockHeaders(c)
        \/ HandleGetBlockBodies(c)
        \/ HandleBlockBodies(c)
        \/ HandleNewBlock(c)
        \/ Lock(c)
        \/ LockAcquire(c)
        \/ setHead(c)
        \/ Unlock(c)
        \/ HandleNewBlockRest(c)
        \/ HandleNewPooledTransactionHashes(c)
        \/ HandleGetPooledTransactions(c)
        \/ HandlePooledTransactions(c)
        \/ HandleGetReceipts(c)
        \/ HandleDefault(c)

Spec == Init /\ [][Next]_vars

\* The steps of c's worker that wait for no peer: what the Go scheduler and
\* the mutex owe a runnable goroutine.  The reads (the peer's status reply,
\* the next message of the loop) are the peer's to make possible and are
\* not among them.
WorkerStep(c) ==
    \/ RLock(c) \/ statusExchangeSend(c) \/ RUnlock(c) \/ Peers(c)
    \/ Lock(c) \/ LockAcquire(c) \/ setHead(c) \/ Unlock(c)
    \/ HandleNewBlockRest(c)

\* The workers under fair scheduling.
FairSpec == Spec /\ \A c \in Conns : WF_vars(WorkerStep(c))

\* ------------------------------------------------------- the shared head

\* The block a connection's new-block message announces, as a head record.
Candidate(c) ==
    [Hash |-> msg[c].Items[1], TotalDifficulty |-> msg[c].TD,
     Number |-> NumberOf(msg[c].Items[1])]
\* The step is c's comparison and assignment in the critical section.
SetsHead(c) == pc[c] = "setHead" /\ pc'[c] = "Unlock"
Exceeds(c) ==
    /\ Candidate(c).Number > head.Number
    /\ Candidate(c).TotalDifficulty > head.TotalDifficulty

\* C1: the head's number never decreases; a step changes the head only if
\* it is the critical section of a connection whose candidate has a strictly
\* greater number and a strictly greater total difficulty than the head;
\* a candidate that exceeds in one of the two only leaves the head as it is.
HeadOnlyAdvances ==
    [][ /\ head'.Number >= head.Number
        /\ head' # head => \E c \in Conns : SetsHead(c) /\ Exceeds(c)
        /\ \A c \in Conns : SetsHead(c) /\ ~Exceeds(c) => head' = head ]_vars

\* A connection has left the comparison with a candidate of a greater number
\* and a smaller total difficulty than the head another connection's block
\* had set, and the head is still that other block.
HeadKeptAgainstHigherNumber ==
    \E c \in Conns, d \in Conns :
        /\ c # d
        /\ pc[c] = "Unlock"
        /\ msg[d].Code = "NewBlockMsg" /\ msg[d].Decodes
        /\ pc[d] \in {"ReadMsg", "returned"}
        /\ head = Candidate(d) /\ head # InitHead
        /\ Candidate(c).Number > head.Number
        /\ Candidate(c).TotalDifficulty < head.TotalDifficulty

\* C2: the critical section of a connection whose candidate exceeds the head
\* in number and in total difficulty leaves the head equal to the candidate's
\* hash, total difficulty and number; the head starts as the initial head and
\* every change makes it the whole record of one connection's candidate.
HeadIsOneRecord ==
    /\ head = InitHead
    /\ [][ /\ \A c \in Conns : SetsHead(c) /\ Exceeds(c) => head' = Candidate(c)
           /\ head' # head =>
                \E c \in Conns : /\ msg[c].Code = "NewBlockMsg" /\ msg[c].Decodes
                                  /\ head' = Candidate(c) ]_vars

\* A connection has replaced the head by its candidate while another one is
\* at the lock with a new block of its own.
HeadReplacedWhileAnotherWaits ==
    \E c \in Conns, d \in Conns :
        /\ c # d
        /\ pc[c] = "Unlock"
        /\ head = Candidate(c) /\ head # InitHead
        /\ pc[d] \in {"Lock", "LockWait"}
        /\ msg[d].Code = "NewBlockMsg" /\ msg[d].Decodes

\* ------------------------------------------------- requests and responses

\* The connection has finished the turn of the loop for the message it read.
TurnOver(c) == nread[c] > 0 /\ pc[c] \in {"ReadMsg", "returned"}
\* ... and the message had this code and decoded.
Handled(c, code) == TurnOver(c) /\ msg[c].Code = code /\ msg[c].Decodes
\* The handler of the turn returned no error.
HandlerReturnedNil(c) == err[c] \in {NoError, "discard"}
\* The places in a list of requests that carry the identifier.
Matches(reqs, id) == {i \in 1..Len(reqs) : reqs[i].requestID = id}
\* The list without its i-th element.
Without(reqs, i) == [j \in 1..(Len(reqs) - 1) |-> IF j < i THEN reqs[j] ELSE reqs[j + 1]]
\* How many of the sends have the code.
NumSent(c, code) == Cardinality({i \in 1..Len(sent[c]) : sent[c][i].Code = code})

\* C3: the identifiers getBlockData allocates on a connection are 1, 2, 3,
\* ... in this order (so distinct, increasing, none allocated twice, whether
\* or not its pending entry is gone); the pending entries carry distinct
\* allocated identifiers; and a turn allocates one identifier per
\* get-headers request it sent.
RequestIdsCountUp ==
    \A c \in Conns :
        /\ \A i \in 1..Len(issued[c]) : issued[c][i] = i
        /\ requestNum[c] = Len(issued[c])
        /\ \A i \in 1..Len(requests[c]) :
              /\ requests[c][i].requestID \in 1..Len(issued[c])
              /\ Matches(requests[c], requests[c][i].requestID) = {i}
        /\ Len(issued[c]) - Len(prev[c].issued) = NumSent(c, "GetBlockHeadersMsg")

\* A connection allocated 1, saw its entry resolved, and allocated 2 next.
AllocatedAfterRemoval ==
    \E c \in Conns :
        /\ Handled(c, "NewBlockHashesMsg")
        /\ prev[c].issued = <<1>> /\ prev[c].requests = <<>>
        /\ issued[c] = <<1, 2>>
        /\ Len(requests[c]) = 1 /\ requests[c][1].requestID = 2

\* C4: a decoded bodies response with a non-empty payload whose identifier
\* is pending leaves the pending list as it was without that one entry,
\* writes the first body with the hash recorded in that entry and nothing
\* else, and its handler returns no error.
MatchedBodiesResolveOne ==
    \A c \in Conns :
        ( /\ Handled(c, "BlockBodiesMsg")
          /\ Len(msg[c].Items) > 0
          /\ Matches(prev[c].requests, msg[c].RequestId) # {} ) =>
            LET i == CHOOSE j \in Matches(prev[c].requests, msg[c].RequestId) : TRUE
            IN  /\ Matches(prev[c].requests, msg[c].RequestId) = {i}
                /\ requests[c] = Without(prev[c].requests, i)
                /\ written[c] = <<Write("WriteBlockBody", <<msg[c].Items[1]>>,
                                        prev[c].requests[i].hash)>>
                /\ HandlerReturnedNil(c)

\* A response resolved the second of two pending requests.
SecondRequestResolved ==
    \E c \in Conns :
        /\ Handled(c, "BlockBodiesMsg")
        /\ Len(msg[c].Items) > 1
        /\ Len(prev[c].requests) = 2
        /\ prev[c].requests[2].requestID = msg[c].RequestId
        /\ requests[c] = <<prev[c].requests[1]>>
        /\ Len(written[c]) = 1

\* The turn changed nothing of the requests and reached neither the peer
\* nor the database.
NothingDone(c) ==
    /\ requests[c] = prev[c].requests
    /\ requestNum[c] = prev[c].requestNum
    /\ sent[c] = <<>>
    /\ written[c] = <<>>
\* The turn changed nothing of the requests and sent nothing.
NothingDoneButWrite(c) ==
    /\ requests[c] = prev[c].requests
    /\ requestNum[c] = prev[c].requestNum
    /\ sent[c] = <<>>
\* A decoded bodies response with a non-empty payload and no pending match.
UnmatchedBodies(c) ==
    /\ Handled(c, "BlockBodiesMsg")
    /\ Len(msg[c].Items) > 0
    /\ Matches(prev[c].requests, msg[c].RequestId) = {}
\* A decoded bodies response with an empty payload.
EmptyBodies(c) ==
    /\ Handled(c, "BlockBodiesMsg")
    /\ Len(msg[c].Items) = 0

\* C5, as amended: a non-empty bodies response that matches no pending
\* entry leaves the pending list unchanged, writes nothing, sends nothing,
\* and its handler returns no error; the connection then reads the next
\* message unless discarding this one fails.
UnmatchedBodiesDropped ==
    \A c \in Conns :
        UnmatchedBodies(c) =>
            /\ NothingDone(c)
            /\ HandlerReturnedNil(c)
            /\ err[c] = "discard" \/ pc[c] = "ReadMsg"

\* C5 as the claim has it: the connection stays in the loop in every case.
UnmatchedBodiesAlwaysGoOn ==
    \A c \in Conns :
        UnmatchedBodies(c) =>
            /\ NothingDone(c)
            /\ HandlerReturnedNil(c)
            /\ pc[c] = "ReadMsg"

\* A second response for an identifier an earlier response had resolved,
\* with another request still pending, and the connection reading on.
ResolvedIdAnsweredAgain ==
    \E c \in Conns :
        /\ UnmatchedBodies(c)
        /\ msg[c].RequestId \in 1..Len(prev[c].issued)
        /\ Len(prev[c].requests) > 0
        /\ pc[c] = "ReadMsg"

\* C6, as amended: a bodies response with an empty payload adds to no
\* counter, leaves the pending list unchanged whether or not its identifier
\* is pending, writes nothing, and its handler returns no error; the
\* connection then reads the next message unless discarding this one fails.
EmptyBodiesIgnored ==
    \A c \in Conns :
        EmptyBodies(c) =>
            /\ added[c] = prev[c].added
            /\ NothingDone(c)
            /\ HandlerReturnedNil(c)
            /\ err[c] = "discard" \/ pc[c] = "ReadMsg"

\* C6 as the claim has it: the connection stays in the loop in every case.
EmptyBodiesAlwaysGoOn ==
    \A c \in Conns :
        EmptyBodies(c) =>
            /\ added[c] = prev[c].added
            /\ NothingDone(c)
            /\ HandlerReturnedNil(c)
            /\ pc[c] = "ReadMsg"

\* An empty response carried the identifier of a pending request, and the
\* connection reads on with the request still pending.
EmptyBodiesForPendingId ==
    \E c \in Conns :
        /\ EmptyBodies(c)
        /\ Matches(prev[c].requests, msg[c].RequestId) # {}
        /\ requests[c] = prev[c].requests
        /\ pc[c] = "ReadMsg"

\* ------------------------------------------------------ the parent fetch

\* The database wants blocks and block events (lines 227-229).
WantsBlocks == db.ShouldWriteBlocks /\ db.ShouldWriteBlockEvents
\* The turn handed the headers of its message to getParentBlock.
ObservedHeaders(c) == Handled(c, "BlockHeadersMsg") \/ Handled(c, "NewBlockMsg")
\* The numbers of the blocks the turn asked the peer's headers of.
NumbersRequested(c) ==
    {NumberOf(sent[c][i].Items[1].Origin) :
        i \in {j \in 1..Len(sent[c]) : sent[c][j].Code = "GetBlockHeadersMsg"}}

\* C7, as amended: no request getParentBlock issues is for a parent whose
\* number is strictly below the number of the connection's oldest block.
NoFetchBelowFloor ==
    \A c \in Conns :
        ObservedHeaders(c) =>
            \A n \in NumbersRequested(c) : n >= oldestBlock[c].Number

\* C7 as the claim has it: nor is any for a parent at that number.
NoFetchAtOrBelowFloor ==
    \A c \in Conns :
        ObservedHeaders(c) =>
            \A n \in NumbersRequested(c) : n > oldestBlock[c].Number

\* A header one above the oldest block, its parent unknown to the database,
\* made the connection request the block at the oldest block's number.
FetchedAtFloor ==
    \E c \in Conns :
        /\ ObservedHeaders(c)
        /\ Len(msg[c].Items) = 1
        /\ NumberOf(msg[c].Items[1]) = prev[c].oldestBlock.Number + 1
        /\ prev[c].oldestBlock # NoHeader
        /\ NumbersRequested(c) = {oldestBlock[c].Number}

\* The headers of c's message that getParentBlock fetches the parent of:
\* those after the one that became the oldest block, with a greater number
\* than the oldest block and a parent the database does not know.
Floor(c) ==
    IF prev[c].oldestBlock # NoHeader THEN prev[c].oldestBlock
    ELSE IF Len(msg[c].Items) = 0 THEN NoHeader
    ELSE Header(msg[c].Items[1])
Fetching(c) ==
    {i \in (IF prev[c].oldestBlock = NoHeader THEN 2 ELSE 1)..Len(msg[c].Items) :
        /\ NumberOf(msg[c].Items[i]) > Floor(c).Number
        /\ ParentHashOf(msg[c].Items[i]) \notin hasBlock[c]}
Rank(c, i) == Cardinality({j \in Fetching(c) : j <= i})
\* What getBlockData leaves for the k-th fetch of the turn, of this hash.
Fetched(c, k, hash) ==
    /\ sent[c][2 * k - 1] =
          Out("GetBlockHeadersMsg", 0, <<[Origin |-> hash, Amount |-> 1]>>)
    /\ sent[c][2 * k] = Out("GetBlockBodiesMsg", prev[c].requestNum + k, <<hash>>)
    /\ requests[c][Len(prev[c].requests) + k] =
          [requestID |-> prev[c].requestNum + k, hash |-> hash]
FetchedEach(c) ==
    /\ Len(sent[c]) = 2 * Cardinality(Fetching(c))
    /\ Len(requests[c]) = Len(prev[c].requests) + Cardinality(Fetching(c))
    /\ requestNum[c] = prev[c].requestNum + Cardinality(Fetching(c))
    /\ \A j \in 1..Len(prev[c].requests) : requests[c][j] = prev[c].requests[j]
    /\ \A i \in Fetching(c) : Fetched(c, Rank(c, i), ParentHashOf(msg[c].Items[i]))
\* The first header a connection observes is its oldest block from then on,
\* and a message of that one header makes no request.
FirstIsFloor(c) ==
    /\ oldestBlock[c] = Floor(c)
    /\ prev[c].oldestBlock = NoHeader /\ Len(msg[c].Items) = 1 => NothingDoneButWrite(c)

\* C8, as amended: with a database that wants blocks and block events, the
\* first header a connection observes becomes its oldest block and makes no
\* request; every later header with a number greater than the oldest
\* block's and a parent the database does not know makes, unless a send
\* fails, one get-headers request for the parent hash with amount 1, one
\* new pending entry of the next identifier and that hash, and one
\* get-bodies request with that identifier; other headers make none.
FloorThenOneFetchEach ==
    \A c \in Conns :
        (WantsBlocks /\ ObservedHeaders(c)) =>
            /\ FirstIsFloor(c)
            /\ err[c] # "send" => FetchedEach(c)

\* C8 as the claim has it: the requests are made in every case.
FloorThenOneFetchAlways ==
    \A c \in Conns :
        (WantsBlocks /\ ObservedHeaders(c)) =>
            /\ FirstIsFloor(c)
            /\ FetchedEach(c)

\* A connection with an oldest block and a request already made observed
\* one header above the oldest block with an unknown parent, and made the
\* one fetch.
OneFetchForLaterHeader ==
    \E c \in Conns :
        /\ WantsBlocks /\ ObservedHeaders(c)
        /\ prev[c].oldestBlock # NoHeader
        /\ prev[c].requestNum > 0
        /\ Len(msg[c].Items) = 1
        /\ Fetching(c) = {1}
        /\ Len(sent[c]) = 2
        /\ requests[c] = Append(prev[c].requests,
                                [requestID |-> prev[c].requestNum + 1,
                                 hash |-> ParentHashOf(msg[c].Items[1])])

\* C9: once a connection has an oldest block, a message all of whose headers
\* have a number not greater than the oldest block's or a parent the database
\* knows makes no request, sends nothing, and leaves the pending list and
\* the request counter as they were.
NoFetchNoEffect ==
    \A c \in Conns :
        ( /\ ObservedHeaders(c)
          /\ prev[c].oldestBlock # NoHeader
          /\ \A i \in 1..Len(msg[c].Items) :
                \/ NumberOf(msg[c].Items[i]) <= prev[c].oldestBlock.Number
                \/ ParentHashOf(msg[c].Items[i]) \in hasBlock[c] ) =>
            NothingDoneButWrite(c)

\* With a request pending, the connection observed its oldest block again,
\* the block's parent unknown to the database.
FloorSeenAgain ==
    \E c \in Conns :
        /\ Handled(c, "BlockHeadersMsg")
        /\ prev[c].oldestBlock # NoHeader
        /\ msg[c].Items = <<prev[c].oldestBlock.Hash>>
        /\ hasBlock[c] = {}
        /\ Len(prev[c].requests) > 0
        /\ requests[c] = prev[c].requests

\* ----------------------------------------------------------- handshake

\* The peer answered c's status with a status of another network.
ForeignStatus(c) ==
    /\ nread[c] = 0
    /\ pc[c] \notin {"RLock", "statusExchange", "statusRead"}
    /\ msg[c].Code = "StatusMsg" /\ msg[c].Decodes
    /\ msg[c].NetworkID # status[c].NetworkID

\* C10: a connection whose peer's status carries another network id ends
\* with DiscUselessPeer: it is releasing the read lock or has returned, it
\* never reaches the loop, its handlers have added to no counter, its node
\* was not sent to the Peers channel, and it sent its status once only.
ForeignNetworkEnds ==
    \A c \in Conns :
        ForeignStatus(c) =>
            /\ err[c] = "DiscUselessPeer"
            /\ pc[c] \in {"RUnlock", "returned"}
            /\ peers[c] = 0
            /\ added[c] = [k \in Counters |-> 0]
            /\ NumSent(c, "StatusMsg") = 1 /\ Len(sent[c]) = 1
            /\ written[c] = <<>>

\* A connection has returned on a foreign status while the other one, in
\* the loop, has counted a message.
ForeignPeerGoneOtherCounts ==
    \E c \in Conns, d \in Conns :
        /\ ForeignStatus(c)
        /\ pc[c] = "returned"
        /\ msg[c].NetworkID = OtherNetworkID
        /\ nread[d] > 0 /\ peers[d] = 1
        /\ \E k \in Counters : count[k] > 0 /\ added[d][k] = count[k]

\* The peer's reply to c's status is a status of c's network.
StatusAccepted(c) ==
    /\ msg[c].Code = "StatusMsg" /\ msg[c].Decodes
    /\ msg[c].NetworkID = status[c].NetworkID

\* C11: the Peers channel has received nothing of a connection in its
\* handshake, one node of a connection in the loop, and never more than one
\* of any; a node is sent only by the step after a status exchange whose
\* reply was accepted and whose read lock is released, and what was sent is
\* never taken back.
PublishedOncePerHandshake ==
    /\ \A c \in Conns : peers[c] = 0
    /\ [](\A c \in Conns :
            /\ peers[c] \in {0, 1}
            /\ Handshaking(c) => peers[c] = 0
            /\ Dispatching(c) => peers[c] = 1)
    /\ [][\A c \in Conns :
            peers'[c] # peers[c] =>
                /\ peers[c] = 0 /\ peers'[c] = 1
                /\ pc[c] = "Peers" /\ pc'[c] = "ReadMsg"
                /\ StatusAccepted(c)
                /\ c \notin headMutex.readers]_vars

\* One connection is published and has returned from its loop; the other
\* one returned from a handshake that failed and is not published.
OnePublishedOneRefused ==
    \E c \in Conns, d \in Conns :
        /\ peers[c] = 1 /\ nread[c] > 0 /\ pc[c] = "returned"
        /\ peers[d] = 0 /\ pc[d] = "returned" /\ status[d] # <<>>
        /\ ~StatusAccepted(d)

\* ------------------------------------------------------------- counters

\* What the connections of S have added to counter k, all together.
RECURSIVE AddedBy(_, _)
AddedBy(S, k) ==
    IF S = {} THEN 0
    ELSE LET c == CHOOSE x \in S : TRUE
         IN  added[c][k] + AddedBy(S \ {c}, k)

\* C12: every counter is the sum of what the handlers of all connections
\* have added to it so far, in every reachable state.
NoAddLost ==
    \A k \in Counters : count[k] = AddedBy(Conns, k)

\* Two connections are inside their new-block handlers at once, both have
\* made their add, and the counter shows both.
BothAddedInFlight ==
    \E c \in Conns, d \in Conns :
        /\ c # d
        /\ pc[c] = "setHead" /\ pc[d] = "Lock"
        /\ added[c]["Blocks"] = 1 /\ added[d]["Blocks"] = 1
        /\ count["Blocks"] = 2

\* The counter the handler of a code adds to, and by how much for message m.
CounterOf(code) ==
    CASE code = "NewBlockHashesMsg" -> "BlockHashes"
      [] code = "TransactionsMsg" -> "Transactions"
      [] code = "GetBlockHeadersMsg" -> "BlockHeaderRequests"
      [] code = "BlockHeadersMsg" -> "BlockHeaders"
      [] code = "GetBlockBodiesMsg" -> "BlockBodiesRequests"
      [] code = "BlockBodiesMsg" -> "BlockBodies"
      [] code = "NewBlockMsg" -> "Blocks"
      [] code = "NewPooledTransactionHashesMsg" -> "TransactionHashes"
      [] code = "GetPooledTransactionsMsg" -> "TransactionRequests"
      [] code = "PooledTransactionsMsg" -> "Transactions"
Observed(m) ==
    IF m.Code \in {"GetBlockHeadersMsg", "NewBlockMsg"} THEN 1 ELSE Len(m.Items)
\* The connection's last message is one a counting handler decoded.
Counted(c) ==
    /\ nread[c] > 0
    /\ msg[c].Decodes
    /\ msg[c].Code \in HandledCodes \ {"GetReceiptsMsg"}

\* C13: a handler that decoded its message has added the number of items
\* of the message (1 for a new block and for a get-headers request) to the
\* counter of its category and nothing to any other; a message that no
\* counting handler decoded has added nothing; and no step makes a counter
\* smaller.
HandlersCountTheirItems ==
    /\ [](\A c \in Conns :
            added[c] = IF Counted(c)
                       THEN [prev[c].added EXCEPT ![CounterOf(msg[c].Code)] =
                                                    @ + Observed(msg[c])]
                       ELSE prev[c].added)
    /\ [][\A k \in Counters : count'[k] >= count[k]]_vars

\* A headers response of two headers added two to the headers counter, on
\* top of what an earlier response had added.
TwoHeadersCounted ==
    \E c \in Conns :
        /\ Handled(c, "BlockHeadersMsg")
        /\ Len(msg[c].Items) = 2
        /\ prev[c].added["BlockHeaders"] > 0
        /\ added[c]["BlockHeaders"] = prev[c].added["BlockHeaders"] + 2
        /\ count["BlockHeaders"] = added[c]["BlockHeaders"]

\* ------------------------------------------------------------ isolation

\* The step ends connection c: Run returns an error.
Ends(c) == pc[c] # "returned" /\ pc'[c] = "returned"
\* The step leaves everything of connection d as it is.
Untouched(d) ==
    /\ pc'[d] = pc[d]
    /\ requests'[d] = requests[d]
    /\ requestNum'[d] = requestNum[d]
    /\ oldestBlock'[d] = oldestBlock[d]
    /\ issued'[d] = issued[d]
    /\ err'[d] = err[d]
    /\ msg'[d] = msg[d]
    /\ nread'[d] = nread[d]
\* The step takes no hold of the head lock, and c has none after it.
LockNotTaken(c) ==
    /\ headMutex'.readers = headMutex.readers \ {c}
    /\ headMutex'.writer = headMutex.writer
    /\ headMutex'.pending = headMutex.pending
    /\ c \notin headMutex.writer \cup headMutex.pending
\* Each step of d that waits for nothing but the lock and d's own place
\* is possible after the step if it was before.
StillPossible(d) ==
    /\ ENABLED Lock(d) => (ENABLED Lock(d))'
    /\ ENABLED LockAcquire(d) => (ENABLED LockAcquire(d))'
    /\ ENABLED setHead(d) => (ENABLED setHead(d))'
    /\ ENABLED Unlock(d) => (ENABLED Unlock(d))'
    /\ ENABLED HandleNewBlockRest(d) => (ENABLED HandleNewBlockRest(d))'
    /\ ENABLED statusExchangeSend(d) => (ENABLED statusExchangeSend(d))'
    /\ ENABLED statusExchangeRead(d) => (ENABLED statusExchangeRead(d))'
    /\ ENABLED RUnlock(d) => (ENABLED RUnlock(d))'
    /\ ENABLED Peers(d) => (ENABLED Peers(d))'
    /\ ENABLED ReadMsgFails(d) => (ENABLED ReadMsgFails(d))'

\* C14: a step in which a connection's Run returns an error leaves every
\* other connection where it is, with its pending list, request counter
\* and oldest block, takes no hold of the head lock and leaves the ending
\* connection with none, and disables no step of another connection.
FaultStaysLocal ==
    [][\A c \in Conns :
         Ends(c) =>
            /\ err'[c] # NoError
            /\ LockNotTaken(c)
            /\ \A d \in Conns \ {c} : Untouched(d) /\ StillPossible(d)]_vars

\* One connection ended on a failed send in its loop; the other is in its
\* loop with a request pending and reads on.
OneEndedOtherGoesOn ==
    \E c \in Conns, d \in Conns :
        /\ pc[c] = "returned" /\ err[c] = "send" /\ nread[c] > 0
        /\ pc[d] = "ReadMsg" /\ Len(requests[d]) > 0 /\ err[d] = NoError

\* ---------------------------------------------------------- termination

\* Any step of connection c's worker.
Step(c) ==
    \/ RLock(c) \/ statusExchangeSend(c) \/ statusExchangeRead(c)
    \/ statusExchangeReadFails(c) \/ RUnlock(c) \/ Peers(c)
    \/ ReadMsgFails(c) \/ HandleNewBlockHashes(c) \/ HandleTransactions(c)
    \/ HandleGetBlockHeaders(c) \/ HandleBlockHeaders(c)
    \/ HandleGetBlockBodies(c) \/ HandleBlockBodies(c) \/ HandleNewBlock(c)
    \/ Lock(c) \/ LockAcquire(c) \/ setHead(c) \/ Unlock(c)
    \/ HandleNewBlockRest(c) \/ HandleNewPooledTransactionHashes(c)
    \/ HandleGetPooledTransactions(c) \/ HandlePooledTransactions(c)
    \/ HandleGetReceipts(c) \/ HandleDefault(c)
\* The codes whose handler answers the peer's request.
RequestCodes == {"GetBlockHeadersMsg", "GetBlockBodiesMsg",
                 "GetPooledTransactionsMsg", "GetReceiptsMsg"}
\* The loop of c had an error: it shows in err[c] once the loop is entered.
LoopError(c) == ~Handshaking(c) /\ err[c] # NoError
\* The turn's message did not decode in its handler.
DecodeFailed(c) ==
    nread[c] > 0 /\ msg[c].Code \in HandledCodes /\ ~msg[c].Decodes
\* The turn's request was decoded and the answer was not sent.
AnswerNotSent(c) ==
    /\ \E code \in RequestCodes : Handled(c, code)
    /\ sent[c] = <<>>

\* C15: in the loop, an error of the read, of a handler's decoding, of a
\* handler (a failed send is one) or of the discard has ended the
\* connection; a connection that has ended has an error, holds no lock and
\* has no step left.
LoopErrorsEnd ==
    \A c \in Conns :
        /\ LoopError(c) => pc[c] = "returned"
        /\ DecodeFailed(c) => err[c] = "decode" /\ pc[c] = "returned"
        /\ AnswerNotSent(c) => err[c] = "send" /\ pc[c] = "returned"
        /\ pc[c] = "returned" =>
              /\ err[c] # NoError
              /\ c \notin headMutex.readers \cup headMutex.writer \cup headMutex.pending
              /\ ~ENABLED Step(c)

\* A connection with a request pending handled a message, and the discard
\* of that message failed: the connection has ended.
EndedOnDiscard ==
    \E c \in Conns :
        /\ pc[c] = "returned" /\ err[c] = "discard"
        /\ nread[c] > 1 /\ Len(requests[c]) > 0

\* The connection shows work of the loop: it is in it, has read a message,
\* has added to a counter, or has requests or an oldest block.
ShowsLoopWork(c) ==
    \/ Dispatching(c)
    \/ nread[c] > 0
    \/ added[c] # [k \in Counters |-> 0]
    \/ requests[c] # <<>> \/ requestNum[c] # 0 \/ oldestBlock[c] # NoHeader

\* C16: a connection whose status exchange is over without an accepted
\* reply (the send failed, the read failed, the reply had another code or
\* did not decode) has an error and goes from releasing the read lock
\* straight to the end; the loop is entered only by the step after line
\* 110, which is reached only with an accepted reply, no error and the
\* status sent; a connection that shows any work of the loop has passed
\* that step.
LoopOnlyAfterHandshake ==
    /\ [](\A c \in Conns :
            /\ (pc[c] = "RUnlock" /\ ~StatusAccepted(c)) => err[c] # NoError
            /\ ShowsLoopWork(c) => peers[c] = 1 /\ status[c] # <<>>)
    /\ [][\A c \in Conns :
            /\ (Handshaking(c) /\ err[c] # NoError /\ pc'[c] # pc[c]) =>
                  pc[c] = "RUnlock" /\ pc'[c] = "returned"
            /\ (Handshaking(c) /\ Dispatching(c)') => pc[c] = "Peers"
            /\ (pc'[c] = "Peers" /\ pc[c] # "Peers") =>
                  /\ pc[c] = "RUnlock"
                  /\ StatusAccepted(c) /\ err[c] = NoError
                  /\ sent[c] = <<Out("StatusMsg", 0, <<status[c]>>)>>]_vars

\* A connection whose peer answered the status with a new-block message
\* has ended without any work of the loop, while the other one is in its
\* loop with a request pending.
WrongCodeNeverDispatched ==
    \E c \in Conns, d \in Conns :
        /\ pc[c] = "returned" /\ msg[c].Code = "NewBlockMsg"
        /\ err[c] = "expected status message code"
        /\ ~ShowsLoopWork(c)
        /\ Dispatching(d) /\ Len(requests[d]) > 0

\* The connection has finished the turn for a message of a code the
\* switch has no case for.
Unhandled(c) ==
    TurnOver(c) /\ msg[c].Code \notin HandledCodes \cup {"none"}

\* C17: a message of a code without a handler adds to no counter, leaves
\* the pending list, the request counter and the oldest block as they
\* were, sends and writes nothing and is no error, and the connection reads
\* on unless discarding the message fails; the step that handles it leaves
\* the head as it is.
UnhandledCodeIgnored ==
    /\ [](\A c \in Conns :
            Unhandled(c) =>
                /\ added[c] = prev[c].added
                /\ NothingDone(c)
                /\ oldestBlock[c] = prev[c].oldestBlock
                /\ HandlerReturnedNil(c)
                /\ err[c] = "discard" \/ pc[c] = "ReadMsg")
    /\ [][\A c \in Conns :
            (nread'[c] # nread[c] /\ msg'[c].Code \notin HandledCodes) =>
                head' = head /\ count' = count]_vars

\* A connection with an oldest block and a request pending got a receipts
\* message and reads on.
ReceiptsIgnored ==
    \E c \in Conns :
        /\ Unhandled(c) /\ msg[c].Code = "ReceiptsMsg"
        /\ oldestBlock[c] # NoHeader /\ Len(requests[c]) > 0
        /\ pc[c] = "ReadMsg"

\* --------------------------------------------------------- one at a time

\* A step in which c's worker returns from rw.ReadMsg.
Reads(c) ==
    \/ ReadMsgFails(c) \/ HandleNewBlockHashes(c) \/ HandleTransactions(c)
    \/ HandleGetBlockHeaders(c) \/ HandleBlockHeaders(c)
    \/ HandleGetBlockBodies(c) \/ HandleBlockBodies(c) \/ HandleNewBlock(c)
    \/ HandleNewPooledTransactionHashes(c) \/ HandleGetPooledTransactions(c)
    \/ HandlePooledTransactions(c) \/ HandleGetReceipts(c) \/ HandleDefault(c)
\* The writes the handler of message m makes when it returns no error,
\* given the pending requests it found.
WritesOf(m, reqs) ==
    CASE m.Code = "NewBlockHashesMsg" -> <<Write("WriteBlockHashes", m.Items, 0)>>
      [] m.Code \in {"TransactionsMsg", "PooledTransactionsMsg"} ->
            <<Write("WriteTransactions", m.Items, 0)>>
      [] m.Code = "BlockHeadersMsg" -> <<Write("WriteBlockHeaders", m.Items, 0)>>
      [] m.Code = "NewBlockMsg" -> <<Write("WriteBlock", m.Items, m.TD)>>
      [] m.Code = "BlockBodiesMsg" ->
            IF Len(m.Items) = 0 \/ Matches(reqs, m.RequestId) = {} THEN <<>>
            ELSE <<Write("WriteBlockBody", <<m.Items[1]>>,
                         reqs[CHOOSE i \in Matches(reqs, m.RequestId) : TRUE].hash)>>
      [] OTHER -> <<>>

\* C18: a connection's worker can return from a read only when it is at
\* the read of the loop with no error, that is when the handler of the
\* message before has returned nil and the message was discarded; by then
\* the handler's storage write is made; and each read takes one message,
\* the one the turn handles.
OneMessageAtATime ==
    /\ [](\A c \in Conns :
            /\ ENABLED Reads(c) => pc[c] = "ReadMsg" /\ err[c] = NoError
            /\ (pc[c] = "ReadMsg" /\ nread[c] > 0 /\ msg[c].Decodes) =>
                  written[c] = WritesOf(msg[c], prev[c].requests))
    /\ [][\A c \in Conns :
            nread'[c] # nread[c] =>
                /\ nread'[c] = nread[c] + 1
                /\ pc[c] = "ReadMsg"
                /\ msg'[c] \in Inbound]_vars

\* A connection with messages still to come is inside its new-block
\* handler, holding the lock, and cannot read.
NoReadInsideHandler ==
    \E c \in Conns :
        /\ pc[c] = "setHead" /\ Alone(c) /\ nread[c] < MaxMsgs
        /\ ~ENABLED Reads(c)

\* ---------------------------------------------------------- the head lock

\* The connection has built its status packet and not yet released the
\* read lock: it is sending the packet, waiting for the reply, or has the
\* reply (or the failure).
InStatusExchange(c) == pc[c] \in {"statusExchange", "statusRead", "RUnlock"}

\* C19: a connection in its status exchange holds the read lock, no
\* connection holds the write lock or can assign the head, and the hash,
\* the total difficulty and the fork id of its status packet are those of
\* the current head.
StatusOfCurrentHead ==
    \A c \in Conns :
        InStatusExchange(c) =>
            /\ c \in headMutex.readers
            /\ headMutex.writer = {}
            /\ \A d \in Conns : pc[d] \notin {"setHead", "Unlock"} /\ ~ENABLED setHead(d)
            /\ status[c].Head = head.Hash
            /\ status[c].TD = head.TotalDifficulty
            /\ status[c].ForkID = NewID(GenesisHash, head.Number)

\* A connection waits for its peer's status reply while another one, with
\* a block that would replace the head, waits for the write lock; the
\* status packet shows the head as it still is.
WriterWaitsForHandshake ==
    \E c \in Conns, d \in Conns :
        /\ pc[c] = "statusRead" /\ pc[d] = "LockWait"
        /\ d \in headMutex.pending /\ c \in headMutex.readers
        /\ Exceeds(d)
        /\ status[c].Head = head.Hash /\ status[c].TD = head.TotalDifficulty

\* C20, for the exclusive lock: a worker that waits for the write lock in
\* the new-block handler gets it in the end, whatever the peers of the
\* other connections do.  (It does not: see the state where the other
\* connection's peer never answers the status.)
LockWaiterAcquires ==
    \A c \in Conns : (pc[c] \in {"Lock", "LockWait"}) ~> (pc[c] = "setHead")

\* ---------------------------------------------------------- getBlockData

\* The places of the get-headers and of the get-bodies requests among what
\* the connection sent in its turn.
HeaderSends(c) == {i \in 1..Len(sent[c]) : sent[c][i].Code = "GetBlockHeadersMsg"}
BodiesSends(c) == {i \in 1..Len(sent[c]) : sent[c][i].Code = "GetBlockBodiesMsg"}
\* How many get-headers requests the turn sent up to the i-th send.
HeaderSendsTo(c, i) == Cardinality({j \in HeaderSends(c) : j <= i})
\* The pending entry made after the get-headers request sent i-th.
NoRequest == [requestID |-> 0, hash |-> -1]
EntryAfter(c, i) ==
    IF Len(prev[c].requests) + HeaderSendsTo(c, i) \in 1..Len(requests[c])
    THEN requests[c][Len(prev[c].requests) + HeaderSendsTo(c, i)]
    ELSE NoRequest

\* C21: every get-headers request is by hash with amount 1 and is followed
\* by the allocation of the next identifier and by the pending entry of
\* that identifier and hash, appended at the back, whether or not the
\* get-bodies send that comes next succeeds; every get-bodies request comes
\* right after its get-headers request and carries the identifier and the
\* one hash of that entry, which is pending; and a get-headers send that
\* fails leaves the counter and the pending list as they were, with no
\* get-bodies request.
GetBlockDataInOrder ==
    \A c \in Conns :
        /\ \A i \in HeaderSends(c) :
              /\ sent[c][i].Items = <<[Origin |-> EntryAfter(c, i).hash, Amount |-> 1]>>
              /\ EntryAfter(c, i).requestID = prev[c].requestNum + HeaderSendsTo(c, i)
              /\ i + 1 \in BodiesSends(c) \/ (i = Len(sent[c]) /\ err[c] = "send")
        /\ \A i \in BodiesSends(c) :
              /\ i - 1 \in HeaderSends(c)
              /\ sent[c][i].RequestId = EntryAfter(c, i).requestID
              /\ sent[c][i].Items = <<EntryAfter(c, i).hash>>
        /\ requestNum[c] = prev[c].requestNum + Cardinality(HeaderSends(c))
        /\ msg[c].Code # "BlockBodiesMsg" =>
              /\ Len(requests[c]) = Len(prev[c].requests) + Cardinality(HeaderSends(c))
              /\ SubSeq(requests[c], 1, Len(prev[c].requests)) = prev[c].requests

\* A turn fetched one block in full and then failed in the get-bodies send
\* of a second: the second request is pending all the same.
BodiesSendFailedAfterPush ==
    \E c \in Conns :
        /\ pc[c] = "returned" /\ err[c] = "send"
        /\ Len(sent[c]) = 3 /\ BodiesSends(c) = {2} /\ HeaderSends(c) = {1, 3}
        /\ Len(requests[c]) = Len(prev[c].requests) + 2
        /\ requestNum[c] = prev[c].requestNum + 2

\* ------------------------------------------------- the database's wishes

\* C22: with a database that does not want blocks or does not want block
\* events, a turn that observed headers (a new block or a headers response)
\* sent nothing, left the pending list and the request counter as they
\* were, returned no error, and the connection has no oldest block.
UnwantedHeadersNoBackfill ==
    \A c \in Conns :
        (~WantsBlocks /\ ObservedHeaders(c)) =>
            /\ NothingDoneButWrite(c)
            /\ HandlerReturnedNil(c)
            /\ oldestBlock[c] = NoHeader /\ prev[c].oldestBlock = NoHeader

\* A database that wants blocks but no block events: a connection with a
\* request pending got a second message of headers, two of them, and still
\* has no oldest block.
UnwantedHeadersSeenTwice ==
    \E c \in Conns :
        /\ db.ShouldWriteBlocks /\ ~db.ShouldWriteBlockEvents
        /\ Handled(c, "BlockHeadersMsg") /\ Len(msg[c].Items) = 2
        /\ nread[c] = 3 /\ Len(requests[c]) > 0
        /\ added[c]["BlockHeaders"] + added[c]["Blocks"] > 2
        /\ oldestBlock[c] = NoHeader /\ sent[c] = <<>>

\* ------------------------------------------------------ the oldest block

\* The turn observed at least one header.
ObservedAHeader(c) == ObservedHeaders(c) /\ Len(msg[c].Items) > 0
\* The hashes the turn asked the peer's headers of.
HashesRequested(c) == {sent[c][i].Items[1].Origin : i \in HeaderSends(c)}
\* The oldest block is the first header the connection observed, the turn
\* that set it made no request for that header's parent, and an oldest
\* block once set is the oldest block for good.
OldestIsFirstObserved(c) ==
    /\ ObservedAHeader(c) =>
          /\ oldestBlock[c] = Floor(c)
          /\ prev[c].oldestBlock = NoHeader =>
                /\ oldestBlock[c] = Header(msg[c].Items[1])
                /\ ParentHashOf(msg[c].Items[1]) \notin HashesRequested(c)
                /\ Len(msg[c].Items) = 1 => sent[c] = <<>>
    /\ prev[c].oldestBlock # NoHeader => oldestBlock[c] = prev[c].oldestBlock

\* C23, as amended: with a database that wants blocks and block events, a
\* connection's oldest block is set once, to the first header the
\* connection observes (of a new block or of a headers response, in the
\* packet's order), by a turn that makes no request for that header, and no
\* later header changes it, whatever its number; nothing but an observed
\* header sets it.
OldestSetOnce ==
    \A c \in Conns :
        /\ WantsBlocks => OldestIsFirstObserved(c)
        /\ oldestBlock[c] # prev[c].oldestBlock => WantsBlocks /\ ObservedAHeader(c)

\* C23 as the claim has it: the first header observed is the oldest block
\* whatever the database wants.
OldestSetOnceAlways ==
    \A c \in Conns :
        /\ OldestIsFirstObserved(c)
        /\ oldestBlock[c] # prev[c].oldestBlock => ObservedAHeader(c)

\* A connection whose oldest block is not the highest block later observed
\* a header with a smaller number: the oldest block is the same.
OldestKeptAgainstLower ==
    \E c \in Conns :
        /\ ObservedAHeader(c)
        /\ prev[c].oldestBlock # NoHeader
        /\ NumberOf(msg[c].Items[1]) < prev[c].oldestBlock.Number
        /\ oldestBlock[c] = prev[c].oldestBlock
        /\ oldestBlock[c].Number < MaxNumber

\* ------------------------------------------------------ the backfill chain

\* The requests a connection in state st makes from the header of hash h
\* on, when the peer answers each request with the one header asked for:
\* the headers response is handled, and if it made a request the header
\* of the requested hash comes next.  More than `fuel` requests count as
\* a chain that does not stop.
RECURSIVE Chain(_, _, _)
Chain(st, h, fuel) ==
    IF fuel = 0 THEN MaxNumber + 2
    ELSE LET s1 == handleBlockHeaders([st EXCEPT !.sent = <<>>],
                                      Msg("BlockHeadersMsg", 0, <<h>>, 0), 0)
         IN  IF s1.sent = <<>> THEN 0
             ELSE 1 + Chain(s1, s1.sent[1].Items[1].Origin, fuel - 1)
\* The most requests a chain from number n makes on connection c.
ChainBound(c, n) ==
    IF n > oldestBlock[c].Number THEN n - oldestBlock[c].Number ELSE 0

\* C24: in a turn that observed headers every request is for the parent of
\* one of the turn's headers, each header accounting for one request at
\* most, and no other turn but that of a block-hashes announcement makes a
\* request; and on a connection with an oldest block at number F, the
\* chain from a header at number N, the peer answering every request with
\* the header asked for, makes at most N - F requests and stops (exactly
\* N - F when the database knows none of the blocks).
BackfillChainStops ==
    \A c \in Conns :
        /\ ObservedHeaders(c) =>
              \A i \in HeaderSends(c) :
                 \E j \in Fetching(c) :
                    /\ Rank(c, j) = HeaderSendsTo(c, i)
                    /\ sent[c][i].Items[1].Origin = ParentHashOf(msg[c].Items[j])
        /\ HeaderSends(c) # {} =>
              msg[c].Code \in {"BlockHeadersMsg", "NewBlockMsg", "NewBlockHashesMsg"}
        /\ (pc[c] = "ReadMsg" /\ oldestBlock[c] # NoHeader) =>
              \A n \in Numbers :
                 /\ \A known \in SUBSET Hashes :
                       Chain(Knowing(Local(c), known), HashOf(n), MaxNumber + 1)
                          <= ChainBound(c, n)
                 /\ Chain(Local(c), HashOf(n), MaxNumber + 1) = ChainBound(c, n)

\* A chain at work: with the oldest block two below the highest, the header
\* of the highest block made a request for its parent, the parent's header
\* came and made a request for the oldest block itself, and the header of
\* that one will make none.
ChainReachedOldest ==
    \E c \in Conns :
        /\ Handled(c, "BlockHeadersMsg") /\ pc[c] = "ReadMsg"
        /\ oldestBlock[c] = Header(HashOf(MaxNumber - 2))
        /\ msg[c].Items = <<HashOf(MaxNumber - 1)>>
        /\ requests[c] = <<[requestID |-> 1, hash |-> HashOf(MaxNumber - 1)],
                           [requestID |-> 2, hash |-> HashOf(MaxNumber - 2)]>>
        /\ Chain(Local(c), HashOf(MaxNumber - 2), MaxNumber + 1) = 0

\* ------------------------------------------------- one request per block

\* Every pending entry of c is a backfill request: no block hash was ever
\* announced to it.
OnlyBackfill(c) == added[c]["BlockHashes"] = 0

\* C25: a connection's pending list holds at most one entry for any block
\* hash, also when the same header is observed twice before the database
\* knows its parent.  (It does not hold: each observation of the header
\* makes a request of its own.)
OnePendingPerAncestor ==
    \A c \in Conns :
        OnlyBackfill(c) =>
            \A i \in 1..Len(requests[c]), j \in 1..Len(requests[c]) :
                requests[c][i].hash = requests[c][j].hash => i = j

\* ------------------------------------------------- answers to the peer

\* The code of the response to a request of the peer.
ResponseOf(code) ==
    CASE code = "GetBlockHeadersMsg" -> "BlockHeadersMsg"
      [] code = "GetBlockBodiesMsg" -> "BlockBodiesMsg"
      [] code = "GetPooledTransactionsMsg" -> "PooledTransactionsMsg"
      [] code = "GetReceiptsMsg" -> "ReceiptsMsg"

\* C26: when the turn for a decoded request of the peer (get block
\* headers, get block bodies, get pooled transactions, get receipts) is
\* over, so before the next message is read, the connection has sent one
\* message and no more, the response of the request's kind with the
\* request's identifier and nothing in it, and its handler returned no
\* error; or the send failed and the connection has ended.  This is so
\* with every database, and the turn writes nothing and leaves the pending
\* list as it was.
RequestsAnswered ==
    \A c \in Conns, code \in RequestCodes :
        Handled(c, code) =>
            /\ \/ /\ sent[c] = <<Out(ResponseOf(code), msg[c].RequestId, <<>>)>>
                  /\ HandlerReturnedNil(c)
               \/ /\ sent[c] = <<>>
                  /\ err[c] = "send" /\ pc[c] = "returned"
            /\ written[c] = <<>>
            /\ requests[c] = prev[c].requests /\ requestNum[c] = prev[c].requestNum

\* With a database that wants no blocks, a connection answered a request
\* for block bodies under the request's identifier and reads on.
BodiesRequestAnswered ==
    \E c \in Conns :
        /\ ~db.ShouldWriteBlocks
        /\ Handled(c, "GetBlockBodiesMsg") /\ Len(msg[c].Items) > 0
        /\ sent[c] = <<Out("BlockBodiesMsg", MaxReqId, <<>>)>>
        /\ pc[c] = "ReadMsg" /\ nread[c] > 1

\* --------------------------------------------------- what is a connection's

\* The connection's last message was a bodies response that resolved one
\* of its pending requests.
Resolved(c) ==
    /\ nread[c] > 0
    /\ msg[c].Code = "BlockBodiesMsg" /\ msg[c].Decodes /\ Len(msg[c].Items) > 0
    /\ Matches(prev[c].requests, msg[c].RequestId) # {}
\* The get-headers request the connection sent k-th in its turn.
HeaderSent(c, k) == sent[c][CHOOSE i \in HeaderSends(c) : HeaderSendsTo(c, i) = k]
\* The pending list, the request counter and the oldest block as the
\* connection's own last turn leaves them, told from what the connection
\* itself had, read and sent.
OwnRequests(c) ==
    IF Resolved(c)
    THEN Without(prev[c].requests,
                 CHOOSE i \in Matches(prev[c].requests, msg[c].RequestId) :
                    \A j \in Matches(prev[c].requests, msg[c].RequestId) : i <= j)
    ELSE prev[c].requests \o
            [k \in 1..Cardinality(HeaderSends(c)) |->
                [requestID |-> prev[c].requestNum + k,
                 hash |-> HeaderSent(c, k).Items[1].Origin]]
OwnRequestNum(c) == prev[c].requestNum + Cardinality(HeaderSends(c))
OwnOldestBlock(c) ==
    IF WantsBlocks /\ ObservedAHeader(c) THEN Floor(c) ELSE prev[c].oldestBlock

\* C27: in every state a connection's pending list, request counter and
\* oldest block are what its own last turn made of what it had when it
\* read its message, whatever steps the other connections have taken
\* before, during and since; its identifiers count from 1 on their own;
\* and a bodies response removes an entry of the connection that read it,
\* or none.
ConnectionFieldsPrivate ==
    \A c \in Conns :
        /\ requests[c] = OwnRequests(c)
        /\ requestNum[c] = OwnRequestNum(c)
        /\ oldestBlock[c] = OwnOldestBlock(c)
        /\ \A i \in 1..Len(issued[c]) : issued[c][i] = i

\* A bodies response with identifier 1 came on a connection that has no
\* such request, while the other connection has its own request 1
\* pending: that one is pending still.
BodiesForTheOthersId ==
    \E c \in Conns, d \in Conns :
        /\ c # d
        /\ UnmatchedBodies(c) /\ msg[c].RequestId = 1
        /\ Len(requests[d]) = 1 /\ requests[d][1].requestID = 1
        /\ oldestBlock[c] = NoHeader
        /\ pc[d] = "ReadMsg"

\* Both connections hold a pending entry under identifier 1.
BothHoldIdOne ==
    \E c \in Conns, d \in Conns :
        /\ c # d
        /\ Len(requests[c]) > 0 /\ requests[c][1].requestID = 1
        /\ Len(requests[d]) > 0 /\ requests[d][1].requestID = 1

\* -------------------------------------------------- who changes the head

\* C28: no step of a handshake, no step that reads and handles a message
\* (block hashes, headers, bodies, transactions, pooled transactions and
\* their hashes, the four requests, unknown codes; of a new block, the
\* decoding and counting) and no step after the critical section of the
\* new-block handler changes the head; a step that changes it is the
\* critical section of a connection handling a decoded new-block message.
HeadChangedByNewBlockOnly ==
    [][ /\ \A c \in Conns :
              /\ (Handshaking(c) /\ pc'[c] # pc[c]) => head' = head
              /\ nread'[c] # nread[c] => head' = head
              /\ (pc[c] = "getParent" /\ pc'[c] # pc[c]) => head' = head
        /\ head' # head =>
              \E c \in Conns :
                 /\ SetsHead(c)
                 /\ msg[c].Code = "NewBlockMsg" /\ msg[c].Decodes ]_vars

\* A headers response with the header of the highest block, which became
\* the connection's oldest block, left the head at the block the session
\* started with.
HigherHeaderLeftHead ==
    \E c \in Conns :
        /\ Handled(c, "BlockHeadersMsg")
        /\ oldestBlock[c] = Header(HashOf(MaxNumber))
        /\ msg[c].Items[1] = HashOf(MaxNumber)
        /\ head = InitHead /\ head.Number < MaxNumber

\* ------------------------------------------------------- lock discipline

\* C29: a connection holds the read lock exactly while it is in its status
\* exchange, so it has released it when the handshake is over, however it
\* ended; it holds the write lock exactly in the compare-and-replace of the
\* new-block handler and waits for it only in Lock; it holds neither when
\* it has returned, publishes its node, reads a message, or fetches the
\* parent and writes the block; and the write lock has one holder at most
\* and never at the same time as a reader.
LockDiscipline ==
    /\ \A c \in Conns :
          /\ c \in headMutex.readers <=> InStatusExchange(c)
          /\ c \in headMutex.writer <=> pc[c] \in {"setHead", "Unlock"}
          /\ c \in headMutex.pending <=> pc[c] = "LockWait"
          /\ pc[c] \in {"RLock", "Peers", "ReadMsg", "Lock", "getParent", "returned"} =>
                c \notin headMutex.readers \cup headMutex.writer \cup headMutex.pending
    /\ Cardinality(headMutex.writer) <= 1
    /\ Cardinality(headMutex.pending) <= 1
    /\ headMutex.writer # {} => headMutex.readers = {}

\* A connection whose peer was of another network has returned from its
\* handshake without the read lock, and the other connection holds the
\* write lock in its new-block handler.
RefusedPeerGoneWriterHolds ==
    \E c \in Conns, d \in Conns :
        /\ pc[c] = "returned" /\ err[c] = "DiscUselessPeer"
        /\ pc[d] = "setHead"
        /\ headMutex = [readers |-> {}, writer |-> {d}, pending |-> {}]

\* ------------------------------------------------------ what stays pending

\* The entry of the pending list that the turn's bodies response named.
NamedByResponse(c, e) == Resolved(c) /\ e.requestID = msg[c].RequestId
\* The places of entry e in a list of requests.
PlacesOf(reqs, e) == {i \in 1..Len(reqs) : reqs[i] = e}

\* C30: the pending list is as long as the identifiers getBlockData has
\* allocated (one for each call that passed its get-headers send) are many,
\* less the bodies responses that were not empty and named a pending
\* identifier; a turn takes one entry from the list exactly when its
\* message is such a response, and every entry the response did not name
\* (the response was empty, named no pending identifier, was another
\* message, or never came) is pending still.
PendingUntilResolved ==
    \A c \in Conns :
        /\ Len(requests[c]) = Len(issued[c]) - resolved[c]
        /\ resolved[c] <= Len(issued[c])
        /\ \A i \in 1..Len(prev[c].requests) :
              \/ NamedByResponse(c, prev[c].requests[i])
              \/ PlacesOf(requests[c], prev[c].requests[i]) # {}
        /\ Len(requests[c]) < Len(prev[c].requests) =>
              Resolved(c) /\ Len(requests[c]) = Len(prev[c].requests) - 1

\* Of two requests one was resolved; then came an empty response for the
\* other: it is pending still, the one entry of two identifiers allocated.
UnansweredStaysPending ==
    \E c \in Conns :
        /\ EmptyBodies(c) /\ pc[c] = "ReadMsg"
        /\ Len(issued[c]) = 2 /\ resolved[c] = 1
        /\ Len(requests[c]) = 1
        /\ requests[c][1].requestID = msg[c].RequestId

\* ------------------------------------------------- announced block hashes

\* The pending entries and the requests that the fetches of the first h
\* hashes of c's announcement make, the last of them maybe without its
\* get-bodies request.
EntriesOf(c, h) ==
    [k \in 1..h |-> [requestID |-> prev[c].requestNum + k, hash |-> msg[c].Items[k]]]
SendsOf(c, h) ==
    [i \in 1..(2 * h) |->
        IF i % 2 = 1
        THEN Out("GetBlockHeadersMsg", 0,
                 <<[Origin |-> msg[c].Items[(i + 1) \div 2], Amount |-> 1]>>)
        ELSE Out("GetBlockBodiesMsg", prev[c].requestNum + (i \div 2),
                 <<msg[c].Items[i \div 2]>>)]

\* C31: the turn of a decoded announcement of n block hashes has fetched
\* the hashes in the announcement's order, each by one get-headers request
\* for the hash, one pending entry of the next identifier and the hash at
\* the back of the list, and one get-bodies request of that identifier and
\* hash; with no send failing there are n of each, whatever the database
\* wants or knows and wherever the oldest block is, and the hashes are
\* written once, after the fetches; with a send failing the handler has
\* stopped there, the entries made so far are pending, nothing is written
\* and the connection has ended.
AnnouncedHashesFetched ==
    \A c \in Conns :
        Handled(c, "NewBlockHashesMsg") =>
            LET n == Len(msg[c].Items)
                h == Cardinality(HeaderSends(c))
            IN  /\ h <= n
                /\ requests[c] = prev[c].requests \o EntriesOf(c, h)
                /\ requestNum[c] = prev[c].requestNum + h
                /\ Len(sent[c]) \in {2 * h, 2 * h - 1}
                /\ sent[c] = SubSeq(SendsOf(c, h), 1, Len(sent[c]))
                /\ oldestBlock[c] = prev[c].oldestBlock
                /\ hasBlock[c] = {}
                /\ err[c] # "send" =>
                      /\ h = n /\ Len(sent[c]) = 2 * n
                      /\ written[c] = <<Write("WriteBlockHashes", msg[c].Items, 0)>>
                      /\ HandlerReturnedNil(c)
                /\ err[c] = "send" =>
                      /\ Len(sent[c]) < 2 * n
                      /\ written[c] = <<>>
                      /\ pc[c] = "returned"

\* A connection whose oldest block is the highest block was announced that
\* block and the one below it, and fetched both.
AnnouncedBelowOldestFetched ==
    \E c \in Conns :
        /\ Handled(c, "NewBlockHashesMsg") /\ pc[c] = "ReadMsg"
        /\ oldestBlock[c] = Header(HashOf(MaxNumber))
        /\ msg[c].Items = Down(MaxNumber) /\ Len(msg[c].Items) > 1
        /\ Len(requests[c]) = Len(prev[c].requests) + Len(msg[c].Items)
        /\ Len(sent[c]) = 2 * Len(msg[c].Items)

\* ------------------------------------------------ the new-block handler

\* The connection's last message is a decoded new block.
InNewBlock(c) == nread[c] > 0 /\ msg[c].Code = "NewBlockMsg" /\ msg[c].Decodes
\* The connection has counted the block of its message.
BlockCounted(c) ==
    /\ added[c]["Blocks"] = prev[c].added["Blocks"] + 1
    /\ count["Blocks"] >= added[c]["Blocks"]
\* Nothing of the backfill or of the write is done yet.
NoBackfillYet(c) ==
    /\ sent[c] = <<>> /\ written[c] = <<>>
    /\ requests[c] = prev[c].requests /\ requestNum[c] = prev[c].requestNum
    /\ oldestBlock[c] = prev[c].oldestBlock

\* C32: a connection handling a decoded new block has counted the block
\* before it asks for the lock; until it has released the lock it has made
\* no backfill request and written nothing; once it has been through the
\* critical section the head is the block or one the block does not
\* exceed, and stays so; the block is written last, when the backfill
\* returned no error; and when the backfill request failed to send, the
\* connection has ended with that error and the block not written, while
\* the count and the head stand as they were made.
NewBlockInOrder ==
    \A c \in Conns :
        InNewBlock(c) =>
            /\ BlockCounted(c)
            /\ pc[c] \in {"Lock", "LockWait", "setHead", "Unlock", "getParent"} =>
                  NoBackfillYet(c) /\ err[c] = NoError
            /\ pc[c] \in {"Unlock", "getParent", "ReadMsg", "returned"} => ~Exceeds(c)
            /\ (TurnOver(c) /\ HandlerReturnedNil(c)) =>
                  written[c] = <<Write("WriteBlock", msg[c].Items, msg[c].TD)>>
            /\ (TurnOver(c) /\ err[c] = "send") =>
                  /\ pc[c] = "returned"
                  /\ written[c] = <<>>
                  /\ Len(sent[c]) < 2

\* A new block replaced the head, and the request for its parent failed to
\* send: the connection has ended, the block is not written, the block is
\* counted and the head is still the block.
BackfillFailedHeadStays ==
    \E c \in Conns :
        /\ InNewBlock(c) /\ pc[c] = "returned" /\ err[c] = "send"
        /\ head = Candidate(c) /\ head # InitHead
        /\ count["Blocks"] = 1 /\ added[c]["Blocks"] = 1
        /\ written[c] = <<>>

\* ------------------------------------------------- the order of the list

\* C33: in every state the identifiers of a connection's pending list
\* increase strictly from the front to the back, and each is at least 1
\* and at most the connection's request counter; so no two entries carry
\* the same identifier, and the scan of the bodies handler from the front
\* finds one entry at most for the identifier of any response.
PendingIdsIncrease ==
    \A c \in Conns :
        /\ \A i \in 1..Len(requests[c]) :
              /\ requests[c][i].requestID >= 1
              /\ requests[c][i].requestID <= requestNum[c]
              /\ i > 1 => requests[c][i - 1].requestID < requests[c][i].requestID
        /\ \A id \in 0..(requestNum[c] + 1) :
              /\ Cardinality(Matches(requests[c], id)) <= 1
              /\ Matches(requests[c], id) \subseteq {findRequest(requests[c], id, 1)}

\* The second of three requests was resolved: the list holds the first
\* and the third, in this order, under a request counter of three.
PendingWithAGap ==
    \E c \in Conns :
        /\ requestNum[c] = 3 /\ resolved[c] = 1
        /\ Len(requests[c]) = 2
        /\ requests[c][1].requestID = 1 /\ requests[c][2].requestID = 3

====
